---- MODULE Spec2Model ----
(***************************************************************************)
(* AirForge: the sparse voxel store (src/src/voxel_engine.py) with its     *)
(* bounded undo log and its memoized visible-face list.                    *)
(*                                                                         *)
(* A Python dict keeps insertion order, and get_visible_faces iterates the *)
(* dict, so the voxel map is a sequence of (pos, voxel) entries with       *)
(* distinct keys.  An Optional value is <<>> for None and <<v>> otherwise. *)
(***************************************************************************)
EXTENDS Integers, Sequences, FiniteSets, TLC

\* ------------------------------------------------------------- bounds
\* Largest grid_size an engine is constructed with.
MaxGrid == 2
\* Number of engine calls in one behaviour.
MaxOps == 4
\* VoxelEngine.max_undo is 50 in the code; the model runs the same code with
\* a shorter log so that a full log and an eviction are reached.
max_undo == 2
\* Largest number of scattered cells filled before the faces are read.
MaxCells == 2
\* Number of get_visible_faces() calls after a fill.
MaxReads == 2
\* Number of detect() calls in one behaviour.
MaxTicks == 11
\* Number of iterations of the tick loop in one behaviour.
MaxLoopTicks == 7
\* Number of HandTracker.process() calls in one behaviour.
MaxFrames == 5
\* Number of times the backend repeats a frame the sanity filter rejected.
MaxWait == 4

\* ------------------------------------------------------ program values
None == <<>>

Voxel(color) == <<color>>

COLORS ==
    << <<255, 100, 50>>, <<50, 150, 255>>, <<50, 255, 100>>, <<255, 50, 150>>,
       <<255, 255, 50>>, <<150, 50, 255>>, <<255, 255, 255>>, <<100, 100, 100>> >>

\* create_floor's default colour, also the colour of main.py's demo platform.
FloorColor == <<100, 100, 100>>

\* Mutant: the labels of the two vertical directions exchanged.
directions_swapped ==
    << [d |-> <<1, 0, 0>>,  face |-> "right"],
       [d |-> <<-1, 0, 0>>, face |-> "left"],
       [d |-> <<0, 1, 0>>,  face |-> "bottom"],
       [d |-> <<0, -1, 0>>, face |-> "top"],
       [d |-> <<0, 0, 1>>,  face |-> "front"],
       [d |-> <<0, 0, -1>>, face |-> "back"] >>

directions ==
    << [d |-> <<1, 0, 0>>,  face |-> "right"],
       [d |-> <<-1, 0, 0>>, face |-> "left"],
       [d |-> <<0, 1, 0>>,  face |-> "top"],
       [d |-> <<0, -1, 0>>, face |-> "bottom"],
       [d |-> <<0, 0, 1>>,  face |-> "front"],
       [d |-> <<0, 0, -1>>, face |-> "back"] >>

\* --------------------------------------------------------------- state
VARIABLES
    grid_size,             \* VoxelEngine.grid_size
    voxels,                \* VoxelEngine.voxels, in insertion order
    current_color_index,   \* VoxelEngine.current_color_index
    undo_stack,            \* VoxelEngine.undo_stack, oldest first
    visible_faces_cache,   \* VoxelEngine._visible_faces_cache (None or <<list>>)
    last,                  \* the most recent call: name, arguments, result, state before it
    prev,                  \* the call before it
    since,                 \* what happened since the last get_visible_faces call
    run,                   \* edits-then-undos bookkeeping since an empty store
    detector,              \* GestureDetector: state, debounce fields, last_scores
    tick,                  \* the most recent detect() call on a detector driven by itself
    app,                   \* AirForge: cursor, grab reference, lock, one-shot flags, camera
    loop,                  \* the most recent loop iteration: clock, what it did, the run it is in
    hand_tracker,          \* HandTracker: frame timestamp, smoother, last sane frame
    seen,                  \* the most recent process() call: what MediaPipe found, what was returned
    nops                   \* calls made so far

vars == << grid_size, voxels, current_color_index, undo_stack,
           visible_faces_cache, last, prev, since, run, detector, tick,
           app, loop, hand_tracker, seen, nops >>

\* ---------------------------------------------------- dict operations
Keys(d) == {d[i].pos : i \in DOMAIN d}

Items(d) == {d[i] : i \in DOMAIN d}

\* Python's dict equality: same keys with same values, order ignored.
DictEq(a, b) == Items(a) = Items(b)

DictGet(d, k) ==
    IF k \in Keys(d) THEN d[CHOOSE i \in DOMAIN d : d[i].pos = k].voxel ELSE None

\* d[k] = v: an existing key keeps its place, a new key goes to the end.
DictSet(d, k, v) ==
    IF k \in Keys(d)
    THEN [i \in DOMAIN d |-> IF d[i].pos = k THEN [pos |-> k, voxel |-> v] ELSE d[i]]
    ELSE Append(d, [pos |-> k, voxel |-> v])

DictDel(d, k) == SelectSeq(d, LAMBDA e : e.pos # k)

\* ------------------------------------------------------ the engine
\* The engine object, as the methods below take and return it.
Self ==
    [grid_size |-> grid_size, voxels |-> voxels,
     current_color_index |-> current_color_index,
     undo_stack |-> undo_stack, cache |-> visible_faces_cache]

NewEngine(g) ==
    [grid_size |-> g, voxels |-> <<>>, current_color_index |-> 0,
     undo_stack |-> <<>>, cache |-> None]

current_color(self) == COLORS[self.current_color_index + 1]

next_color(self) ==
    [self EXCEPT !.current_color_index = (self.current_color_index + 1) % Len(COLORS)]

prev_color(self) ==
    [self EXCEPT !.current_color_index = (self.current_color_index - 1) % Len(COLORS)]

\* Mutant: the upper bound on x taken inclusive (x <= grid_size).
is_valid_position_inclusive(self, x, y, z) ==
    /\ 0 <= x /\ x <= self.grid_size
    /\ 0 <= y /\ y < self.grid_size
    /\ 0 <= z /\ z < self.grid_size

\* Mutant: the lower bound on z forgotten.
is_valid_position_no_floor(self, x, y, z) ==
    /\ 0 <= x /\ x < self.grid_size
    /\ 0 <= y /\ y < self.grid_size
    /\ z < self.grid_size

is_valid_position(self, x, y, z) ==
    /\ 0 <= x /\ x < self.grid_size
    /\ 0 <= y /\ y < self.grid_size
    /\ 0 <= z /\ z < self.grid_size

invalidate_cache(self) == [self EXCEPT !.cache = None]

\* Mutant: pop() for pop(0): a full log drops the record just pushed.
push_undo_drops_newest(self, action, pos, voxel) ==
    LET s == Append(self.undo_stack, [action |-> action, pos |-> pos, voxel |-> voxel])
    IN  [self EXCEPT !.undo_stack =
            IF Len(s) > max_undo THEN SubSeq(s, 1, Len(s) - 1) ELSE s]

push_undo(self, action, pos, voxel) ==
    LET s == Append(self.undo_stack, [action |-> action, pos |-> pos, voxel |-> voxel])
    IN  [self EXCEPT !.undo_stack = IF Len(s) > max_undo THEN Tail(s) ELSE s]

\* Mutant: a position outside the grid counts as occupied.
has_voxel_walled(self, x, y, z) ==
    \/ <<x, y, z>> \in Keys(self.voxels)
    \/ ~is_valid_position(self, x, y, z)

has_voxel(self, x, y, z) == <<x, y, z>> \in Keys(self.voxels)

\* color is None or <<rgb>>; every palette colour is a truthy tuple.
place_voxel(self, x, y, z, color) ==
    IF ~is_valid_position(self, x, y, z)
    THEN [self |-> self, ret |-> FALSE]
    ELSE LET pos == <<x, y, z>>
             c == IF color # None THEN color[1] ELSE current_color(self)
             old_voxel == DictGet(self.voxels, pos)
             s1 == push_undo(self, "place", pos, old_voxel)
             s2 == [s1 EXCEPT !.voxels = DictSet(s1.voxels, pos, Voxel(c))]
         IN  [self |-> invalidate_cache(s2), ret |-> TRUE]

\* Mutant: the record is pushed and the cache invalidated, the del forgotten.
remove_voxel_keeps_cell(self, x, y, z) ==
    LET pos == <<x, y, z>> IN
    IF pos \notin Keys(self.voxels)
    THEN [self |-> self, ret |-> FALSE]
    ELSE LET old_voxel == DictGet(self.voxels, pos)
             s1 == push_undo(self, "remove", pos, old_voxel)
         IN  [self |-> invalidate_cache(s1), ret |-> TRUE]

remove_voxel(self, x, y, z) ==
    LET pos == <<x, y, z>> IN
    IF pos \notin Keys(self.voxels)
    THEN [self |-> self, ret |-> FALSE]
    ELSE LET old_voxel == DictGet(self.voxels, pos)
             s1 == push_undo(self, "remove", pos, old_voxel)
             s2 == [s1 EXCEPT !.voxels = DictDel(s1.voxels, pos)]
         IN  [self |-> invalidate_cache(s2), ret |-> TRUE]

\* Mutant: a "place" record with no prior voxel leaves the placed cell.
undo_keeps_placed(self) ==
    IF self.undo_stack = <<>>
    THEN [self |-> self, ret |-> FALSE]
    ELSE LET n == Len(self.undo_stack)
             top == self.undo_stack[n]
             s1 == [self EXCEPT !.undo_stack = SubSeq(self.undo_stack, 1, n - 1)]
             vs == IF top.action = "place"
                   THEN IF top.voxel = None
                        THEN s1.voxels
                        ELSE DictSet(s1.voxels, top.pos, top.voxel)
                   ELSE IF top.action = "remove" /\ top.voxel # None
                        THEN DictSet(s1.voxels, top.pos, top.voxel)
                        ELSE s1.voxels
             s2 == [s1 EXCEPT !.voxels = vs]
         IN  [self |-> invalidate_cache(s2), ret |-> TRUE]

\* Mutant: a "place" record always deletes the cell, the overwritten voxel
\* is not put back.
undo_drops_overwritten(self) ==
    IF self.undo_stack = <<>>
    THEN [self |-> self, ret |-> FALSE]
    ELSE LET n == Len(self.undo_stack)
             top == self.undo_stack[n]
             s1 == [self EXCEPT !.undo_stack = SubSeq(self.undo_stack, 1, n - 1)]
             vs == IF top.action = "place"
                   THEN DictDel(s1.voxels, top.pos)
                   ELSE IF top.action = "remove" /\ top.voxel # None
                        THEN DictSet(s1.voxels, top.pos, top.voxel)
                        ELSE s1.voxels
             s2 == [s1 EXCEPT !.voxels = vs]
         IN  [self |-> invalidate_cache(s2), ret |-> TRUE]

\* Mutant: the cache is invalidated before the empty-stack check.
undo_invalidates_first(self) ==
    IF self.undo_stack = <<>>
    THEN [self |-> invalidate_cache(self), ret |-> FALSE]
    ELSE LET n == Len(self.undo_stack)
             top == self.undo_stack[n]
             s1 == [self EXCEPT !.undo_stack = SubSeq(self.undo_stack, 1, n - 1)]
             vs == IF top.action = "place"
                   THEN IF top.voxel = None
                        THEN DictDel(s1.voxels, top.pos)
                        ELSE DictSet(s1.voxels, top.pos, top.voxel)
                   ELSE IF top.action = "remove" /\ top.voxel # None
                        THEN DictSet(s1.voxels, top.pos, top.voxel)
                        ELSE s1.voxels
             s2 == [s1 EXCEPT !.voxels = vs]
         IN  [self |-> invalidate_cache(s2), ret |-> TRUE]

undo(self) ==
    IF self.undo_stack = <<>>
    THEN [self |-> self, ret |-> FALSE]
    ELSE LET n == Len(self.undo_stack)
             top == self.undo_stack[n]
             s1 == [self EXCEPT !.undo_stack = SubSeq(self.undo_stack, 1, n - 1)]
             vs == IF top.action = "place"
                   THEN IF top.voxel = None
                        THEN DictDel(s1.voxels, top.pos)
                        ELSE DictSet(s1.voxels, top.pos, top.voxel)
                   ELSE IF top.action = "remove" /\ top.voxel # None
                        THEN DictSet(s1.voxels, top.pos, top.voxel)
                        ELSE s1.voxels
             s2 == [s1 EXCEPT !.voxels = vs]
         IN  [self |-> invalidate_cache(s2), ret |-> TRUE]

\* The faces of one entry, in the order of `directions`.
\* Mutant: no culling, every cell emits its six faces.
EntryFaces_unculled(self, e) ==
    [i \in 1..Len(directions) |->
        [pos |-> e.pos, face |-> directions[i].face, color |-> e.voxel[1]]]

\* Mutant: the neighbour looked up two cells away.
EntryFaces_far(self, e) ==
    LET open == SelectSeq(directions,
                    LAMBDA dr : ~has_voxel(self, e.pos[1] + 2 * dr.d[1],
                                           e.pos[2] + 2 * dr.d[2], e.pos[3] + 2 * dr.d[3]))
    IN  [i \in 1..Len(open) |->
            [pos |-> e.pos, face |-> open[i].face, color |-> e.voxel[1]]]

EntryFaces(self, e) ==
    LET open == SelectSeq(directions,
                    LAMBDA dr : ~has_voxel(self, e.pos[1] + dr.d[1],
                                           e.pos[2] + dr.d[2], e.pos[3] + dr.d[3]))
    IN  [i \in 1..Len(open) |->
            [pos |-> e.pos, face |-> open[i].face, color |-> e.voxel[1]]]

RECURSIVE BuildFaces(_, _)
BuildFaces(self, i) ==
    IF i > Len(self.voxels) THEN <<>>
    ELSE EntryFaces(self, self.voxels[i]) \o BuildFaces(self, i + 1)

\* Mutant: the memo tested for truth (if self._visible_faces_cache:), so an
\* empty memoized list is rebuilt.
get_visible_faces_truthy(self) ==
    IF self.cache # None /\ self.cache[1] # <<>>
    THEN [self |-> self, ret |-> self.cache[1], rebuilt |-> FALSE]
    ELSE LET faces == BuildFaces(self, 1)
         IN  [self |-> [self EXCEPT !.cache = <<faces>>], ret |-> faces, rebuilt |-> TRUE]

\* Mutant: the built list is returned but never memoized.
get_visible_faces_no_memo(self) ==
    LET faces == BuildFaces(self, 1)
    IN  [self |-> self, ret |-> faces, rebuilt |-> TRUE]

\* ret is the returned list; rebuilt tells whether the loop ran.
get_visible_faces(self) ==
    IF self.cache # None
    THEN [self |-> self, ret |-> self.cache[1], rebuilt |-> FALSE]
    ELSE LET faces == BuildFaces(self, 1)
         IN  [self |-> [self EXCEPT !.cache = <<faces>>], ret |-> faces, rebuilt |-> TRUE]

\* Mutant: the undo log survives clear().
clear_keeps_log(self) ==
    invalidate_cache([self EXCEPT !.voxels = <<>>])

clear(self) ==
    invalidate_cache([self EXCEPT !.voxels = <<>>, !.undo_stack = <<>>])

\* The double loop of create_floor: cell k is x = k \div g, z = k % g.
RECURSIVE FloorFrom(_, _, _, _, _)
FloorFrom(d, g, y, color, k) ==
    IF k >= g * g THEN d
    ELSE FloorFrom(DictSet(d, <<k \div g, y, k % g>>, Voxel(color)), g, y, color, k + 1)

\* Mutant: create_floor without _invalidate_cache.
create_floor_keeps_cache(self, y, color) ==
    [self EXCEPT !.voxels = FloorFrom(self.voxels, self.grid_size, y, color, 0)]

create_floor(self, y, color) ==
    invalidate_cache(
        [self EXCEPT !.voxels = FloorFrom(self.voxels, self.grid_size, y, color, 0)])

\* --------------------------------------------------- gesture detector
\* Coordinates are in thousandths of the normalized image, distances in
\* ten-thousandths, scores in thousandths (1000 is 1.0).
WRIST == 0
THUMB_MCP == 2
THUMB_TIP == 4
INDEX_MCP == 5
INDEX_PIP == 6
INDEX_TIP == 8
MIDDLE_MCP == 9
MIDDLE_PIP == 10
MIDDLE_TIP == 12
RING_MCP == 13
RING_PIP == 14
RING_TIP == 16
PINKY_MCP == 17
PINKY_PIP == 18
PINKY_TIP == 20

curl_threshold == 30

min_hold_frames == 3

\* GestureDetector(): last_scores is the empty dict until a hand is scored.
NewDetector ==
    [state |-> "IDLE", state_frames |-> 0, gesture_hold_frames |-> 0,
     last_gesture |-> "NONE", last_scores |-> <<>>]

\* landmarks[i] of the 21-point list.
At(landmarks, i) == landmarks[i + 1]

\* The largest r with r * r <= n, for lo <= r < hi.
RECURSIVE Sqrt(_, _, _)
Sqrt(n, lo, hi) ==
    IF hi - lo <= 1 THEN lo
    ELSE LET mid == (lo + hi) \div 2
         IN  IF mid * mid <= n THEN Sqrt(n, mid, hi) ELSE Sqrt(n, lo, mid)

Max(a, b) == IF a >= b THEN a ELSE b

Min(a, b) == IF a <= b THEN a ELSE b

\* sqrt(dx^2 + dy^2 + dz^2) in ten-thousandths, rounded down: it lies between
\* the largest of |dx|, |dy|, |dz| and their sum.
dist(p1, p2) ==
    LET dx == IF p1.x < p2.x THEN p2.x - p1.x ELSE p1.x - p2.x
        dy == IF p1.y < p2.y THEN p2.y - p1.y ELSE p1.y - p2.y
        dz == IF p1.z < p2.z THEN p2.z - p1.z ELSE p1.z - p2.z
    IN  Sqrt(100 * (dx * dx + dy * dy + dz * dz),
             10 * Max(dx, Max(dy, dz)), 10 * (dx + dy + dz) + 1)

\* max(d1, d2, 0.01)
get_hand_scale(landmarks) ==
    LET d1 == dist(At(landmarks, WRIST), At(landmarks, INDEX_MCP))
        d2 == dist(At(landmarks, WRIST), At(landmarks, MIDDLE_MCP))
    IN  Max(Max(d1, d2), 100)

finger_tips ==
    [index  |-> <<INDEX_MCP, INDEX_PIP, INDEX_TIP>>,
     middle |-> <<MIDDLE_MCP, MIDDLE_PIP, MIDDLE_TIP>>,
     ring   |-> <<RING_MCP, RING_PIP, RING_TIP>>,
     pinky  |-> <<PINKY_MCP, PINKY_PIP, PINKY_TIP>>]

is_finger_extended(landmarks, finger) ==
    LET mcp_y == At(landmarks, finger_tips[finger][1]).y
        pip_y == At(landmarks, finger_tips[finger][2]).y
        tip_y == At(landmarks, finger_tips[finger][3]).y
    IN  tip_y < pip_y - curl_threshold /\ tip_y < mcp_y

is_thumb_extended(landmarks) ==
    LET thumb_tip_x == At(landmarks, THUMB_TIP).x
        thumb_mcp_x == At(landmarks, THUMB_MCP).x
        index_mcp_x == At(landmarks, INDEX_MCP).x
        thumb_tip_dist == IF thumb_tip_x < index_mcp_x THEN index_mcp_x - thumb_tip_x
                          ELSE thumb_tip_x - index_mcp_x
        thumb_mcp_dist == IF thumb_mcp_x < index_mcp_x THEN index_mcp_x - thumb_mcp_x
                          ELSE thumb_mcp_x - index_mcp_x
    IN  thumb_tip_dist > thumb_mcp_dist + 50

\* scores["pinch"] = max(0, min(1, 1 - (pinch_dist / scale) / 0.5)); palm,
\* grab and peace are 1.0 or 0.0.
get_gesture_scores(landmarks, scale) ==
    LET pinch_dist == dist(At(landmarks, THUMB_TIP), At(landmarks, INDEX_TIP))
        ext(f) == is_finger_extended(landmarks, f)
        ext_count == Cardinality({f \in {"index", "middle", "ring", "pinky"} : ext(f)})
        thumb_ext == is_thumb_extended(landmarks)
        is_peace == ext("index") /\ ext("middle") /\ ~ext("ring") /\ ~ext("pinky")
    IN  [pinch |-> Max(0, Min(1000, 1000 - (2000 * pinch_dist) \div scale)),
         palm  |-> IF ext_count = 4 /\ thumb_ext THEN 1000 ELSE 0,
         grab  |-> IF ext_count = 0 /\ ~thumb_ext THEN 1000 ELSE 0,
         peace |-> IF is_peace THEN 1000 ELSE 0]

\* Mutant: the no-hand branch leaves the debounce count as it is.
lost_keeps_hold(self) ==
    [self |-> [self EXCEPT !.state = "IDLE", !.last_gesture = "NONE"],
     ret |-> "NONE", raw |-> "NONE"]

\* detect(None)
lost(self) ==
    [self |-> [self EXCEPT !.state = "IDLE", !.gesture_hold_frames = 0,
                           !.last_gesture = "NONE"],
     ret |-> "NONE", raw |-> "NONE"]

\* Mutant: RELEASE left only below 0.1.
transition_late_release(state, scores) ==
    LET s1 == IF state = "IDLE" THEN "HAND_PRESENT" ELSE state
        pinch_score == scores.pinch
    IN  CASE s1 = "HAND_PRESENT" ->
                 IF pinch_score > 400 THEN [state |-> "PRE_PINCH", new_gesture |-> "NONE"]
                 ELSE [state |-> s1, new_gesture |-> "POINT"]
          [] s1 = "PRE_PINCH" ->
                 [state |-> IF pinch_score > 700 THEN "PINCHED"
                            ELSE IF pinch_score < 300 THEN "HAND_PRESENT" ELSE s1,
                  new_gesture |-> "POINT"]
          [] s1 = "PINCHED" ->
                 IF pinch_score < 500 THEN [state |-> "RELEASE", new_gesture |-> "NONE"]
                 ELSE [state |-> s1, new_gesture |-> "PINCH"]
          [] s1 = "RELEASE" ->
                 [state |-> IF pinch_score < 100 THEN "HAND_PRESENT" ELSE s1,
                  new_gesture |-> "POINT"]

\* Mutant: the tick that enters PINCHED already has the label PINCH.
transition_pinch_on_entry(state, scores) ==
    LET pinch_score == scores.pinch
        s1 == IF state = "IDLE" THEN "HAND_PRESENT" ELSE state
    IN  CASE s1 = "HAND_PRESENT" ->
                 IF pinch_score > 400 THEN [state |-> "PRE_PINCH", new_gesture |-> "NONE"]
                 ELSE IF scores.palm > 800 THEN [state |-> s1, new_gesture |-> "PALM"]
                 ELSE IF scores.grab > 800 THEN [state |-> s1, new_gesture |-> "GRAB"]
                 ELSE IF scores.peace > 800 THEN [state |-> s1, new_gesture |-> "PEACE"]
                 ELSE [state |-> s1, new_gesture |-> "POINT"]
          [] s1 = "PRE_PINCH" ->
                 IF pinch_score > 700 THEN [state |-> "PINCHED", new_gesture |-> "PINCH"]
                 ELSE [state |-> IF pinch_score < 300 THEN "HAND_PRESENT" ELSE s1,
                       new_gesture |-> "POINT"]
          [] s1 = "PINCHED" ->
                 IF pinch_score < 500 THEN [state |-> "RELEASE", new_gesture |-> "NONE"]
                 ELSE [state |-> s1, new_gesture |-> "PINCH"]
          [] s1 = "RELEASE" ->
                 [state |-> IF pinch_score < 300 THEN "HAND_PRESENT" ELSE s1,
                  new_gesture |-> "POINT"]

\* Mutant: every branch tested with if, so one tick can take two transitions.
transition_chained(state, scores) ==
    LET pinch_score == scores.pinch
        s1 == IF state = "IDLE" THEN "HAND_PRESENT" ELSE state
        s2 == IF s1 = "HAND_PRESENT" /\ pinch_score > 400 THEN "PRE_PINCH" ELSE s1
        s3 == IF s2 = "PRE_PINCH"
              THEN IF pinch_score > 700 THEN "PINCHED"
                   ELSE IF pinch_score < 300 THEN "HAND_PRESENT" ELSE s2
              ELSE s2
        s4 == IF s3 = "PINCHED" /\ pinch_score < 500 THEN "RELEASE" ELSE s3
    IN  [state |-> s4,
         new_gesture |-> IF s4 = "PINCHED" THEN "PINCH" ELSE "POINT"]

\* Mutant: a pinch above 0.8 in RELEASE goes back to PINCHED.
transition_repinch(state, scores) ==
    LET pinch_score == scores.pinch
        s1 == IF state = "IDLE" THEN "HAND_PRESENT" ELSE state
    IN  CASE s1 = "HAND_PRESENT" ->
                 IF pinch_score > 400 THEN [state |-> "PRE_PINCH", new_gesture |-> "NONE"]
                 ELSE IF scores.palm > 800 THEN [state |-> s1, new_gesture |-> "PALM"]
                 ELSE IF scores.grab > 800 THEN [state |-> s1, new_gesture |-> "GRAB"]
                 ELSE IF scores.peace > 800 THEN [state |-> s1, new_gesture |-> "PEACE"]
                 ELSE [state |-> s1, new_gesture |-> "POINT"]
          [] s1 = "PRE_PINCH" ->
                 [state |-> IF pinch_score > 700 THEN "PINCHED"
                            ELSE IF pinch_score < 300 THEN "HAND_PRESENT" ELSE s1,
                  new_gesture |-> "POINT"]
          [] s1 = "PINCHED" ->
                 IF pinch_score < 500 THEN [state |-> "RELEASE", new_gesture |-> "NONE"]
                 ELSE [state |-> s1, new_gesture |-> "PINCH"]
          [] s1 = "RELEASE" ->
                 [state |-> IF pinch_score < 300 THEN "HAND_PRESENT"
                            ELSE IF pinch_score > 800 THEN "PINCHED" ELSE s1,
                  new_gesture |-> "POINT"]

\* The state machine step of detect: the state after it and new_gesture.
\* The IDLE test is an if of its own, the four others are one if / elif chain.
transition(state, scores) ==
    LET pinch_score == scores.pinch
        s1 == IF state = "IDLE" THEN "HAND_PRESENT" ELSE state
    IN  CASE s1 = "HAND_PRESENT" ->
                 IF pinch_score > 400 THEN [state |-> "PRE_PINCH", new_gesture |-> "NONE"]
                 ELSE IF scores.palm > 800 THEN [state |-> s1, new_gesture |-> "PALM"]
                 ELSE IF scores.grab > 800 THEN [state |-> s1, new_gesture |-> "GRAB"]
                 ELSE IF scores.peace > 800 THEN [state |-> s1, new_gesture |-> "PEACE"]
                 ELSE [state |-> s1, new_gesture |-> "POINT"]
          [] s1 = "PRE_PINCH" ->
                 [state |-> IF pinch_score > 700 THEN "PINCHED"
                            ELSE IF pinch_score < 300 THEN "HAND_PRESENT" ELSE s1,
                  new_gesture |-> "POINT"]
          [] s1 = "PINCHED" ->
                 IF pinch_score < 500 THEN [state |-> "RELEASE", new_gesture |-> "NONE"]
                 ELSE [state |-> s1, new_gesture |-> "PINCH"]
          [] s1 = "RELEASE" ->
                 [state |-> IF pinch_score < 300 THEN "HAND_PRESENT" ELSE s1,
                  new_gesture |-> "POINT"]

\* Mutant: a label surfaces only after more than min_hold_frames ticks.
debounce_late(self, new_gesture) ==
    LET s1 == IF new_gesture = self.last_gesture
              THEN [self EXCEPT !.gesture_hold_frames = @ + 1]
              ELSE [self EXCEPT !.gesture_hold_frames = 1, !.last_gesture = new_gesture]
    IN  [self |-> s1, raw |-> new_gesture,
         ret |-> IF new_gesture = "PINCH" /\ s1.state = "PINCHED" THEN "PINCH"
                 ELSE IF s1.gesture_hold_frames > min_hold_frames THEN new_gesture
                 ELSE "NONE"]

\* Mutant: no fast path, PINCH is debounced like the other labels.
debounce_no_fast_path(self, new_gesture) ==
    LET s1 == IF new_gesture = self.last_gesture
              THEN [self EXCEPT !.gesture_hold_frames = @ + 1]
              ELSE [self EXCEPT !.gesture_hold_frames = 1, !.last_gesture = new_gesture]
    IN  [self |-> s1, raw |-> new_gesture,
         ret |-> IF s1.gesture_hold_frames >= min_hold_frames THEN new_gesture
                 ELSE "NONE"]

\* Mutant: a changed label goes on counting from the hold count of the old one.
debounce_keeps_count(self, new_gesture) ==
    LET s1 == IF new_gesture = self.last_gesture
              THEN [self EXCEPT !.gesture_hold_frames = @ + 1]
              ELSE [self EXCEPT !.gesture_hold_frames = @ + 1, !.last_gesture = new_gesture]
    IN  [self |-> s1, raw |-> new_gesture,
         ret |-> IF new_gesture = "PINCH" /\ s1.state = "PINCHED" THEN "PINCH"
                 ELSE IF s1.gesture_hold_frames >= min_hold_frames THEN new_gesture
                 ELSE "NONE"]

\* The debounce of detect: self has the new state already.
debounce(self, new_gesture) ==
    LET s1 == IF new_gesture = self.last_gesture
              THEN [self EXCEPT !.gesture_hold_frames = @ + 1]
              ELSE [self EXCEPT !.gesture_hold_frames = 1, !.last_gesture = new_gesture]
    IN  [self |-> s1, raw |-> new_gesture,
         ret |-> IF new_gesture = "PINCH" /\ s1.state = "PINCHED" THEN "PINCH"
                 ELSE IF s1.gesture_hold_frames >= min_hold_frames THEN new_gesture
                 ELSE "NONE"]

\* detect(landmarks): landmarks is None or <<the 21 points>>. ret is the
\* returned gesture, raw is new_gesture.
detect(self, landmarks) ==
    IF landmarks = None THEN lost(self)
    ELSE LET scale == get_hand_scale(landmarks[1]) IN
         IF scale = 0 THEN [self |-> self, ret |-> "NONE", raw |-> "NONE"]
         ELSE LET scores == get_gesture_scores(landmarks[1], scale)
                  t == transition(self.state, scores)
              IN  debounce([self EXCEPT !.last_scores = scores, !.state = t.state],
                           t.new_gesture)

\* ------------------------------------------------------ the application
\* AirForge (main.py): the engine, the detector and the fields the tick loop
\* keeps. Times are in milliseconds, camera angles in thousandths of a degree.
\* action_lock_until and _peace_active are None until the code creates them.
NewCamera == [target_yaw |-> 45000, target_pitch |-> 30000]

min_pitch == -80000

max_pitch == 80000

\* Camera.orbit
orbit(camera, delta_yaw, delta_pitch) ==
    [target_yaw |-> camera.target_yaw + delta_yaw,
     target_pitch |-> Max(min_pitch, Min(max_pitch, camera.target_pitch + delta_pitch))]

NewApp(g) ==
    [cursor_pos |-> <<g \div 2, g \div 2, g \div 2>>,
     last_hand_pos |-> None, last_grab_pos |-> None,
     action_lock_until |-> None, pinch_fired |-> FALSE, delete_fired |-> FALSE,
     peace_active |-> None, camera |-> NewCamera]

\* Python's int() of a / b: rounded towards zero.
Trunc(a, b) == IF a >= 0 THEN a \div b ELSE -((-a) \div b)

\* The platform of _create_demo_structure: the place_voxel calls for x and z
\* from center - 2 to center + 2 at y = 0, x outermost, the first n of them.
RECURSIVE DemoFrom(_, _)
DemoFrom(engine, n) ==
    IF n = 0 THEN engine
    ELSE LET center == engine.grid_size \div 2
             x == center - 2 + ((n - 1) \div 5)
             z == center - 2 + ((n - 1) % 5)
         IN  place_voxel(DemoFrom(engine, n - 1), x, 0, z, <<FloorColor>>).self

create_demo_structure(engine) == DemoFrom(engine, 25)

\* Nothing done by _process_gesture on a tick.
NoActs == [placed |-> FALSE, removed |-> FALSE, cycled |-> FALSE, orbit |-> None,
           locked |-> FALSE]

\* Mutant: pinch_fired is never set, only the lock holds further places back.
process_gesture_no_flag(self, engine, gesture, landmarks, current_time) ==
    IF landmarks = None
    THEN [app |-> [self EXCEPT !.last_hand_pos = None, !.last_grab_pos = None],
          engine |-> engine, acts |-> NoActs]
    ELSE
    LET tip == At(landmarks[1], INDEX_TIP)
        g == engine.grid_size
        cursor == <<Max(0, Min(g - 1, Trunc(tip.x * g, 1000))),
                    Max(0, Min(g - 1, Trunc((1000 - tip.y) * g, 1000))),
                    Max(0, Min(g - 1, Trunc(g * 500 - tip.z * 50, 1000)))>>
        fresh == self.action_lock_until = None
        lock == IF fresh THEN 0 ELSE self.action_lock_until[1]
        a1 == [self EXCEPT
                 !.cursor_pos = cursor,
                 !.action_lock_until = <<lock>>,
                 !.pinch_fired = IF fresh \/ gesture # "PINCH" THEN FALSE ELSE @,
                 !.delete_fired = IF fresh \/ gesture # "PALM" THEN FALSE ELSE @]
    IN  IF current_time < lock
        THEN [app |-> a1, engine |-> engine, acts |-> [NoActs EXCEPT !.locked = TRUE]]
        ELSE
        LET \* if PINCH / elif PALM / elif GRAB / else
            placing == gesture = "PINCH" /\ ~a1.pinch_fired
            place == place_voxel(engine, cursor[1], cursor[2], cursor[3], None)
            removing == gesture = "PALM" /\ (~a1.delete_fired \/ current_time > lock)
            remove == remove_voxel(engine, cursor[1], cursor[2], cursor[3])
            orbiting == gesture = "GRAB" /\ a1.last_grab_pos # None
            a2 == IF placing /\ place.ret
                  THEN [a1 EXCEPT !.pinch_fired = FALSE,
                                  !.action_lock_until = <<current_time + 200>>]
                  ELSE IF removing /\ remove.ret
                  THEN [a1 EXCEPT !.delete_fired = TRUE,
                                  !.action_lock_until = <<current_time + 150>>]
                  ELSE IF gesture = "GRAB"
                  THEN [a1 EXCEPT
                          !.camera = IF orbiting
                                     THEN orbit(@, -((tip.x - a1.last_grab_pos[1].x) * 200),
                                                (tip.y - a1.last_grab_pos[1].y) * 200)
                                     ELSE @,
                          !.last_grab_pos = <<tip>>]
                  ELSE IF gesture \in {"PINCH", "PALM"} THEN a1
                  ELSE [a1 EXCEPT !.last_grab_pos = None]
            e2 == IF placing THEN place.self
                  ELSE IF removing THEN remove.self
                  ELSE engine
            \* if PEACE / else
            cycling == gesture = "PEACE" /\ (a2.peace_active = None \/ ~a2.peace_active[1])
            a3 == IF cycling
                  THEN [a2 EXCEPT !.peace_active = <<TRUE>>,
                                  !.action_lock_until = <<current_time + 300>>]
                  ELSE IF gesture = "PEACE" THEN a2
                  ELSE [a2 EXCEPT !.peace_active = <<FALSE>>]
            e3 == IF cycling THEN next_color(e2) ELSE e2
        IN  [app |-> [a3 EXCEPT !.last_hand_pos = <<tip>>],
             engine |-> e3,
             acts |-> [placed |-> placing /\ place.ret,
                       removed |-> removing /\ remove.ret,
                       cycled |-> cycling,
                       orbit |-> IF orbiting
                                 THEN <<-((tip.x - a1.last_grab_pos[1].x) * 200),
                                        (tip.y - a1.last_grab_pos[1].y) * 200>>
                                 ELSE None,
                       locked |-> FALSE]]

\* Mutant: a remove sets the lock to the time of the remove, without the 150 ms.
process_gesture_no_remove_lock(self, engine, gesture, landmarks, current_time) ==
    IF landmarks = None
    THEN [app |-> [self EXCEPT !.last_hand_pos = None, !.last_grab_pos = None],
          engine |-> engine, acts |-> NoActs]
    ELSE
    LET tip == At(landmarks[1], INDEX_TIP)
        g == engine.grid_size
        cursor == <<Max(0, Min(g - 1, Trunc(tip.x * g, 1000))),
                    Max(0, Min(g - 1, Trunc((1000 - tip.y) * g, 1000))),
                    Max(0, Min(g - 1, Trunc(g * 500 - tip.z * 50, 1000)))>>
        fresh == self.action_lock_until = None
        lock == IF fresh THEN 0 ELSE self.action_lock_until[1]
        a1 == [self EXCEPT
                 !.cursor_pos = cursor,
                 !.action_lock_until = <<lock>>,
                 !.pinch_fired = IF fresh \/ gesture # "PINCH" THEN FALSE ELSE @,
                 !.delete_fired = IF fresh \/ gesture # "PALM" THEN FALSE ELSE @]
    IN  IF current_time < lock
        THEN [app |-> a1, engine |-> engine, acts |-> [NoActs EXCEPT !.locked = TRUE]]
        ELSE
        LET \* if PINCH / elif PALM / elif GRAB / else
            placing == gesture = "PINCH" /\ ~a1.pinch_fired
            place == place_voxel(engine, cursor[1], cursor[2], cursor[3], None)
            removing == gesture = "PALM" /\ (~a1.delete_fired \/ current_time > lock)
            remove == remove_voxel(engine, cursor[1], cursor[2], cursor[3])
            orbiting == gesture = "GRAB" /\ a1.last_grab_pos # None
            a2 == IF placing /\ place.ret
                  THEN [a1 EXCEPT !.pinch_fired = TRUE,
                                  !.action_lock_until = <<current_time + 200>>]
                  ELSE IF removing /\ remove.ret
                  THEN [a1 EXCEPT !.delete_fired = TRUE,
                                  !.action_lock_until = <<current_time>>]
                  ELSE IF gesture = "GRAB"
                  THEN [a1 EXCEPT
                          !.camera = IF orbiting
                                     THEN orbit(@, -((tip.x - a1.last_grab_pos[1].x) * 200),
                                                (tip.y - a1.last_grab_pos[1].y) * 200)
                                     ELSE @,
                          !.last_grab_pos = <<tip>>]
                  ELSE IF gesture \in {"PINCH", "PALM"} THEN a1
                  ELSE [a1 EXCEPT !.last_grab_pos = None]
            e2 == IF placing THEN place.self
                  ELSE IF removing THEN remove.self
                  ELSE engine
            \* if PEACE / else
            cycling == gesture = "PEACE" /\ (a2.peace_active = None \/ ~a2.peace_active[1])
            a3 == IF cycling
                  THEN [a2 EXCEPT !.peace_active = <<TRUE>>,
                                  !.action_lock_until = <<current_time + 300>>]
                  ELSE IF gesture = "PEACE" THEN a2
                  ELSE [a2 EXCEPT !.peace_active = <<FALSE>>]
            e3 == IF cycling THEN next_color(e2) ELSE e2
        IN  [app |-> [a3 EXCEPT !.last_hand_pos = <<tip>>],
             engine |-> e3,
             acts |-> [placed |-> placing /\ place.ret,
                       removed |-> removing /\ remove.ret,
                       cycled |-> cycling,
                       orbit |-> IF orbiting
                                 THEN <<-((tip.x - a1.last_grab_pos[1].x) * 200),
                                        (tip.y - a1.last_grab_pos[1].y) * 200>>
                                 ELSE None,
                       locked |-> FALSE]]

\* Mutant: the lock is set but never looked at.
process_gesture_no_lock_check(self, engine, gesture, landmarks, current_time) ==
    IF landmarks = None
    THEN [app |-> [self EXCEPT !.last_hand_pos = None, !.last_grab_pos = None],
          engine |-> engine, acts |-> NoActs]
    ELSE
    LET tip == At(landmarks[1], INDEX_TIP)
        g == engine.grid_size
        cursor == <<Max(0, Min(g - 1, Trunc(tip.x * g, 1000))),
                    Max(0, Min(g - 1, Trunc((1000 - tip.y) * g, 1000))),
                    Max(0, Min(g - 1, Trunc(g * 500 - tip.z * 50, 1000)))>>
        fresh == self.action_lock_until = None
        lock == IF fresh THEN 0 ELSE self.action_lock_until[1]
        a1 == [self EXCEPT
                 !.cursor_pos = cursor,
                 !.action_lock_until = <<lock>>,
                 !.pinch_fired = IF fresh \/ gesture # "PINCH" THEN FALSE ELSE @,
                 !.delete_fired = IF fresh \/ gesture # "PALM" THEN FALSE ELSE @]
    IN  IF FALSE /\ current_time < lock
        THEN [app |-> a1, engine |-> engine, acts |-> [NoActs EXCEPT !.locked = TRUE]]
        ELSE
        LET \* if PINCH / elif PALM / elif GRAB / else
            placing == gesture = "PINCH" /\ ~a1.pinch_fired
            place == place_voxel(engine, cursor[1], cursor[2], cursor[3], None)
            removing == gesture = "PALM" /\ (~a1.delete_fired \/ current_time > lock)
            remove == remove_voxel(engine, cursor[1], cursor[2], cursor[3])
            orbiting == gesture = "GRAB" /\ a1.last_grab_pos # None
            a2 == IF placing /\ place.ret
                  THEN [a1 EXCEPT !.pinch_fired = TRUE,
                                  !.action_lock_until = <<current_time + 200>>]
                  ELSE IF removing /\ remove.ret
                  THEN [a1 EXCEPT !.delete_fired = TRUE,
                                  !.action_lock_until = <<current_time + 150>>]
                  ELSE IF gesture = "GRAB"
                  THEN [a1 EXCEPT
                          !.camera = IF orbiting
                                     THEN orbit(@, -((tip.x - a1.last_grab_pos[1].x) * 200),
                                                (tip.y - a1.last_grab_pos[1].y) * 200)
                                     ELSE @,
                          !.last_grab_pos = <<tip>>]
                  ELSE IF gesture \in {"PINCH", "PALM"} THEN a1
                  ELSE [a1 EXCEPT !.last_grab_pos = None]
            e2 == IF placing THEN place.self
                  ELSE IF removing THEN remove.self
                  ELSE engine
            \* if PEACE / else
            cycling == gesture = "PEACE" /\ (a2.peace_active = None \/ ~a2.peace_active[1])
            a3 == IF cycling
                  THEN [a2 EXCEPT !.peace_active = <<TRUE>>,
                                  !.action_lock_until = <<current_time + 300>>]
                  ELSE IF gesture = "PEACE" THEN a2
                  ELSE [a2 EXCEPT !.peace_active = <<FALSE>>]
            e3 == IF cycling THEN next_color(e2) ELSE e2
        IN  [app |-> [a3 EXCEPT !.last_hand_pos = <<tip>>],
             engine |-> e3,
             acts |-> [placed |-> placing /\ place.ret,
                       removed |-> removing /\ remove.ret,
                       cycled |-> cycling,
                       orbit |-> IF orbiting
                                 THEN <<-((tip.x - a1.last_grab_pos[1].x) * 200),
                                        (tip.y - a1.last_grab_pos[1].y) * 200>>
                                 ELSE None,
                       locked |-> FALSE]]

\* Mutant: a tick with another gesture leaves last_grab_pos as it is.
process_gesture_keeps_grab(self, engine, gesture, landmarks, current_time) ==
    IF landmarks = None
    THEN [app |-> [self EXCEPT !.last_hand_pos = None, !.last_grab_pos = None],
          engine |-> engine, acts |-> NoActs]
    ELSE
    LET tip == At(landmarks[1], INDEX_TIP)
        g == engine.grid_size
        cursor == <<Max(0, Min(g - 1, Trunc(tip.x * g, 1000))),
                    Max(0, Min(g - 1, Trunc((1000 - tip.y) * g, 1000))),
                    Max(0, Min(g - 1, Trunc(g * 500 - tip.z * 50, 1000)))>>
        fresh == self.action_lock_until = None
        lock == IF fresh THEN 0 ELSE self.action_lock_until[1]
        a1 == [self EXCEPT
                 !.cursor_pos = cursor,
                 !.action_lock_until = <<lock>>,
                 !.pinch_fired = IF fresh \/ gesture # "PINCH" THEN FALSE ELSE @,
                 !.delete_fired = IF fresh \/ gesture # "PALM" THEN FALSE ELSE @]
    IN  IF current_time < lock
        THEN [app |-> a1, engine |-> engine, acts |-> [NoActs EXCEPT !.locked = TRUE]]
        ELSE
        LET \* if PINCH / elif PALM / elif GRAB / else
            placing == gesture = "PINCH" /\ ~a1.pinch_fired
            place == place_voxel(engine, cursor[1], cursor[2], cursor[3], None)
            removing == gesture = "PALM" /\ (~a1.delete_fired \/ current_time > lock)
            remove == remove_voxel(engine, cursor[1], cursor[2], cursor[3])
            orbiting == gesture = "GRAB" /\ a1.last_grab_pos # None
            a2 == IF placing /\ place.ret
                  THEN [a1 EXCEPT !.pinch_fired = TRUE,
                                  !.action_lock_until = <<current_time + 200>>]
                  ELSE IF removing /\ remove.ret
                  THEN [a1 EXCEPT !.delete_fired = TRUE,
                                  !.action_lock_until = <<current_time + 150>>]
                  ELSE IF gesture = "GRAB"
                  THEN [a1 EXCEPT
                          !.camera = IF orbiting
                                     THEN orbit(@, -((tip.x - a1.last_grab_pos[1].x) * 200),
                                                (tip.y - a1.last_grab_pos[1].y) * 200)
                                     ELSE @,
                          !.last_grab_pos = <<tip>>]
                  ELSE IF gesture \in {"PINCH", "PALM"} THEN a1
                  ELSE a1
            e2 == IF placing THEN place.self
                  ELSE IF removing THEN remove.self
                  ELSE engine
            \* if PEACE / else
            cycling == gesture = "PEACE" /\ (a2.peace_active = None \/ ~a2.peace_active[1])
            a3 == IF cycling
                  THEN [a2 EXCEPT !.peace_active = <<TRUE>>,
                                  !.action_lock_until = <<current_time + 300>>]
                  ELSE IF gesture = "PEACE" THEN a2
                  ELSE [a2 EXCEPT !.peace_active = <<FALSE>>]
            e3 == IF cycling THEN next_color(e2) ELSE e2
        IN  [app |-> [a3 EXCEPT !.last_hand_pos = <<tip>>],
             engine |-> e3,
             acts |-> [placed |-> placing /\ place.ret,
                       removed |-> removing /\ remove.ret,
                       cycled |-> cycling,
                       orbit |-> IF orbiting
                                 THEN <<-((tip.x - a1.last_grab_pos[1].x) * 200),
                                        (tip.y - a1.last_grab_pos[1].y) * 200>>
                                 ELSE None,
                       locked |-> FALSE]]

\* AirForge._process_gesture(gesture, landmarks) when pygame.time.get_ticks()
\* gives current_time: the fields and the engine after it, and what it did.
process_gesture(self, engine, gesture, landmarks, current_time) ==
    IF landmarks = None
    THEN [app |-> [self EXCEPT !.last_hand_pos = None, !.last_grab_pos = None],
          engine |-> engine, acts |-> NoActs]
    ELSE
    LET tip == At(landmarks[1], INDEX_TIP)
        g == engine.grid_size
        cursor == <<Max(0, Min(g - 1, Trunc(tip.x * g, 1000))),
                    Max(0, Min(g - 1, Trunc((1000 - tip.y) * g, 1000))),
                    Max(0, Min(g - 1, Trunc(g * 500 - tip.z * 50, 1000)))>>
        fresh == self.action_lock_until = None
        lock == IF fresh THEN 0 ELSE self.action_lock_until[1]
        a1 == [self EXCEPT
                 !.cursor_pos = cursor,
                 !.action_lock_until = <<lock>>,
                 !.pinch_fired = IF fresh \/ gesture # "PINCH" THEN FALSE ELSE @,
                 !.delete_fired = IF fresh \/ gesture # "PALM" THEN FALSE ELSE @]
    IN  IF current_time < lock
        THEN [app |-> a1, engine |-> engine, acts |-> [NoActs EXCEPT !.locked = TRUE]]
        ELSE
        LET \* if PINCH / elif PALM / elif GRAB / else
            placing == gesture = "PINCH" /\ ~a1.pinch_fired
            place == place_voxel(engine, cursor[1], cursor[2], cursor[3], None)
            removing == gesture = "PALM" /\ (~a1.delete_fired \/ current_time > lock)
            remove == remove_voxel(engine, cursor[1], cursor[2], cursor[3])
            orbiting == gesture = "GRAB" /\ a1.last_grab_pos # None
            a2 == IF placing /\ place.ret
                  THEN [a1 EXCEPT !.pinch_fired = TRUE,
                                  !.action_lock_until = <<current_time + 200>>]
                  ELSE IF removing /\ remove.ret
                  THEN [a1 EXCEPT !.delete_fired = TRUE,
                                  !.action_lock_until = <<current_time + 150>>]
                  ELSE IF gesture = "GRAB"
                  THEN [a1 EXCEPT
                          !.camera = IF orbiting
                                     THEN orbit(@, -((tip.x - a1.last_grab_pos[1].x) * 200),
                                                (tip.y - a1.last_grab_pos[1].y) * 200)
                                     ELSE @,
                          !.last_grab_pos = <<tip>>]
                  ELSE IF gesture \in {"PINCH", "PALM"} THEN a1
                  ELSE [a1 EXCEPT !.last_grab_pos = None]
            e2 == IF placing THEN place.self
                  ELSE IF removing THEN remove.self
                  ELSE engine
            \* if PEACE / else
            cycling == gesture = "PEACE" /\ (a2.peace_active = None \/ ~a2.peace_active[1])
            a3 == IF cycling
                  THEN [a2 EXCEPT !.peace_active = <<TRUE>>,
                                  !.action_lock_until = <<current_time + 300>>]
                  ELSE IF gesture = "PEACE" THEN a2
                  ELSE [a2 EXCEPT !.peace_active = <<FALSE>>]
            e3 == IF cycling THEN next_color(e2) ELSE e2
        IN  [app |-> [a3 EXCEPT !.last_hand_pos = <<tip>>],
             engine |-> e3,
             acts |-> [placed |-> placing /\ place.ret,
                       removed |-> removing /\ remove.ret,
                       cycled |-> cycling,
                       orbit |-> IF orbiting
                                 THEN <<-((tip.x - a1.last_grab_pos[1].x) * 200),
                                        (tip.y - a1.last_grab_pos[1].y) * 200>>
                                 ELSE None,
                       locked |-> FALSE]]

\* ----------------------------------------------------- the hand tracker
\* Coordinates are in thousandths, as in the detector; alpha and
\* jump_threshold likewise.

\* LandmarkSmoother(alpha=0.6, jump_threshold=0.1)
NewSmoother == [alpha |-> 600, jump_threshold |-> 100, prev_landmarks |-> None]

\* HandTracker.__init__
NewTracker ==
    [frame_timestamp_ms |-> 0, smoother |-> NewSmoother,
     last_sane_landmarks |-> None, last_sane_timestamp |-> 0]

\* Milliseconds process() adds to the timestamp per frame.
FrameMs == 33

\* MAX_SPEED in _is_velocity_sane, units per second.
MAX_SPEED == 5

\* dx*dx + dy*dy + dz*dz of two points.
Dist2(p, q) ==
    (p.x - q.x) * (p.x - q.x) + (p.y - q.y) * (p.y - q.y) + (p.z - q.z) * (p.z - q.z)

\* alpha * curr + (1 - alpha) * prev, to the thousandth below.
Ema(alpha, curr, old) == (alpha * curr + (1000 - alpha) * old) \div 1000

\* LandmarkSmoother.update(current_landmarks): the smoother after it and the
\* landmarks returned.
update(self, current_landmarks) ==
    IF self.prev_landmarks = None
    THEN [self |-> [self EXCEPT !.prev_landmarks = <<current_landmarks>>],
          ret |-> current_landmarks]
    ELSE LET smoothed ==
                 [i \in DOMAIN current_landmarks |->
                     LET curr == current_landmarks[i]
                         old == self.prev_landmarks[1][i]
                     IN  IF Dist2(curr, old) > self.jump_threshold * self.jump_threshold
                         THEN curr
                         ELSE [x |-> Ema(self.alpha, curr.x, old.x),
                               y |-> Ema(self.alpha, curr.y, old.y),
                               z |-> Ema(self.alpha, curr.z, old.z)]]
         IN  [self |-> [self EXCEPT !.prev_landmarks = <<smoothed>>], ret |-> smoothed]

\* Mutant: a rejected frame is stored as well.
is_velocity_sane_stores_rejected(self, landmarks, timestamp_ms) ==
    IF self.last_sane_landmarks = None
    THEN [self |-> [self EXCEPT !.last_sane_landmarks = <<landmarks>>,
                                !.last_sane_timestamp = timestamp_ms],
          ret |-> TRUE]
    ELSE LET dt == timestamp_ms - self.last_sane_timestamp
             wrist == At(landmarks, WRIST)
             prev_wrist == At(self.last_sane_landmarks[1], WRIST)
         IN  IF dt <= 0 THEN [self |-> self, ret |-> TRUE]
             ELSE [self |-> [self EXCEPT !.last_sane_landmarks = <<landmarks>>,
                                         !.last_sane_timestamp = timestamp_ms],
                   ret |-> ~(Dist2(wrist, prev_wrist) > (MAX_SPEED * dt) * (MAX_SPEED * dt))]

\* Mutant: a rejection moves last_sane_timestamp to the rejected frame.
is_velocity_sane_restamps(self, landmarks, timestamp_ms) ==
    IF self.last_sane_landmarks = None
    THEN [self |-> [self EXCEPT !.last_sane_landmarks = <<landmarks>>,
                                !.last_sane_timestamp = timestamp_ms],
          ret |-> TRUE]
    ELSE LET dt == timestamp_ms - self.last_sane_timestamp
             wrist == At(landmarks, WRIST)
             prev_wrist == At(self.last_sane_landmarks[1], WRIST)
         IN  IF dt <= 0 THEN [self |-> self, ret |-> TRUE]
             ELSE IF Dist2(wrist, prev_wrist) > (MAX_SPEED * dt) * (MAX_SPEED * dt)
             THEN [self |-> [self EXCEPT !.last_sane_timestamp = timestamp_ms],
                   ret |-> FALSE]
             ELSE [self |-> [self EXCEPT !.last_sane_landmarks = <<landmarks>>,
                                         !.last_sane_timestamp = timestamp_ms],
                   ret |-> TRUE]

\* HandTracker._is_velocity_sane(landmarks, timestamp_ms): the tracker after
\* it and the verdict. speed > MAX_SPEED is compared on the squares.
is_velocity_sane(self, landmarks, timestamp_ms) ==
    IF self.last_sane_landmarks = None
    THEN [self |-> [self EXCEPT !.last_sane_landmarks = <<landmarks>>,
                                !.last_sane_timestamp = timestamp_ms],
          ret |-> TRUE]
    ELSE LET dt == timestamp_ms - self.last_sane_timestamp
             wrist == At(landmarks, WRIST)
             prev_wrist == At(self.last_sane_landmarks[1], WRIST)
         IN  IF dt <= 0 THEN [self |-> self, ret |-> TRUE]
             ELSE IF Dist2(wrist, prev_wrist) > (MAX_SPEED * dt) * (MAX_SPEED * dt)
             THEN [self |-> self, ret |-> FALSE]
             ELSE [self |-> [self EXCEPT !.last_sane_landmarks = <<landmarks>>,
                                         !.last_sane_timestamp = timestamp_ms],
                   ret |-> TRUE]

\* HandTracker.process() on a frame in which MediaPipe found hand_landmarks
\* (None, or the hand's 21 points): the tracker after it and the landmarks
\* returned.
process(self, hand_landmarks) ==
    LET s1 == [self EXCEPT !.frame_timestamp_ms = @ + FrameMs] IN
    IF hand_landmarks = None
    THEN [self |-> s1, ret |-> None]
    ELSE LET sane == is_velocity_sane(s1, hand_landmarks[1], s1.frame_timestamp_ms)
             smooth == update(sane.self.smoother, hand_landmarks[1])
         IN  IF sane.ret
             THEN [self |-> [sane.self EXCEPT !.smoother = smooth.self], ret |-> <<smooth.ret>>]
             ELSE [self |-> sane.self, ret |-> None]

\* ------------------------------------------------------------- inputs
\* Positions the calls are made with, for a grid of size g: on the x axis the
\* first and the last cell and one step out of the grid on either side, and
\* a y and a z out of bounds.
Probes(g) ==
    {<<x, 0, 0>> : x \in {-1, 0, g - 1, g}} \cup {<<0, g, 0>>, <<0, 0, -1>>}

\* place_voxel's color argument: omitted, or main.py's explicit grey.
ColorArgs == {None, <<FloorColor>>}

FloorLevels == {-1, 0}

\* The cells of a grid of size g.
Cells(g) == {<<x, y, z>> : x \in 0 .. g - 1, y \in 0 .. g - 1, z \in 0 .. g - 1}

\* The filled k x k x k cube with lowest corner o.
Cube(o, k) ==
    {<<o[1] + i, o[2] + j, o[3] + l>> : i \in 0 .. k - 1, j \in 0 .. k - 1, l \in 0 .. k - 1}

Cubes(g) ==
    {Cube(o, k) : <<o, k>> \in {<<o, k>> \in Cells(g) \X (1 .. g) :
                                  \A i \in 1 .. 3 : o[i] + k <= g}}

\* The sets of at most n cells out of C.
RECURSIVE UpTo(_, _)
UpTo(n, C) ==
    IF n = 0 THEN {{}}
    ELSE LET S == UpTo(n - 1, C) IN S \cup {s \cup {c} : <<s, c>> \in S \X C}

\* A set of cells as the list of place_voxel calls that fills it, x outermost.
RECURSIVE InOrder(_, _)
InOrder(S, g) ==
    IF S = {} THEN <<>>
    ELSE LET rank(p) == (p[1] * g + p[2]) * g + p[3]
             first == CHOOSE p \in S : \A q \in S : rank(p) <= rank(q)
         IN  <<first>> \o InOrder(S \ {first}, g)

\* What is built before the faces are read: a few cells anywhere in the
\* grid, or a filled cube.
Fills(g) == {InOrder(S, g) : S \in UpTo(MaxCells, Cells(g)) \cup Cubes(g)}

\* tests/test_culling.py: the grid, and the place_voxel calls of the test
\* in their order, the first two at (a, 5, 5) and (a + 1, 5, 5); the test
\* has a = 5.
TestGrid == 16

TestStarts == 3 .. 6

TestPlaces(a) ==
    <<<<a, 5, 5>>, <<a + 1, 5, 5>>>> \o InOrder(Cube(<<0, 0, 0>>, 3), TestGrid)

\* The colour argument of the place_voxel call that fills cell p: omitted or
\* grey, so that neighbouring cells differ in colour.
FillColor(p) == IF (p[1] + p[2] + p[3]) % 2 = 0 THEN None ELSE <<FloorColor>>

Point(x, y) == [x |-> x, y |-> y, z |-> 0]

\* tests/test_gesture.py create_mock_hand(pinch_dist), pinch_dist in thousandths.
create_mock_hand(pinch_dist) ==
    [i \in 1 .. 21 |->
        CASE i - 1 = WRIST      -> Point(500, 800)
          [] i - 1 = INDEX_MCP  -> Point(500, 600)
          [] i - 1 = MIDDLE_MCP -> Point(550, 600)
          [] i - 1 = THUMB_TIP  -> Point(500, 400)
          [] i - 1 = INDEX_TIP  -> Point(500 + pinch_dist, 400)
          [] i - 1 = 3          -> Point(400, 400)
          [] i - 1 = INDEX_PIP  -> Point(600 + pinch_dist, 400)
          [] OTHER              -> Point(0, 0)]

\* An upright hand as the tracker reports it: wrist at the bottom, knuckles
\* span above it, the fingers in ext stretched upwards and the others
\* curled, the thumb tip beside the palm when thumb holds, and the index tip
\* pinch_dist to the right of the thumb tip at the same height.
MakeHand(pinch_dist, ext, thumb, span) ==
    LET mcp_y == 1000 - span
        tip_y(f) == IF f \in ext THEN mcp_y - 200 ELSE mcp_y - 50
        thumb_x == IF thumb THEN 400 ELSE 500
    IN  [i \in 1 .. 21 |->
            CASE i - 1 = WRIST      -> Point(500, 1000)
              [] i - 1 = THUMB_MCP  -> Point(480, mcp_y + 50)
              [] i - 1 = THUMB_TIP  -> Point(thumb_x, tip_y("index"))
              [] i - 1 = INDEX_TIP  -> Point(thumb_x + pinch_dist, tip_y("index"))
              [] i - 1 = MIDDLE_TIP -> Point(500, tip_y("middle"))
              [] i - 1 = RING_TIP   -> Point(500, tip_y("ring"))
              [] i - 1 = PINKY_TIP  -> Point(500, tip_y("pinky"))
              [] i - 1 \in {INDEX_MCP, MIDDLE_MCP, RING_MCP, PINKY_MCP}
                                    -> Point(500, mcp_y)
              [] OTHER              -> Point(500, mcp_y - 100)]

AllFingers == {"index", "middle", "ring", "pinky"}

\* A hand moved by dx along x.
Shift(hand, dx) == [i \in DOMAIN hand |-> [hand[i] EXCEPT !.x = @ + dx]]

\* The frames the tick loop is fed: a pinching hand, an open palm, a fist
\* and a peace sign.
Pinching == MakeHand(5, {"index"}, FALSE, 200)

Palm == MakeHand(150, AllFingers, TRUE, 200)

Fist == MakeHand(150, {}, FALSE, 200)

Peace == MakeHand(150, {"index", "middle"}, FALSE, 200)

\* How far left the hand is in the frames that move the cursor to another cell.
Moved == -200

\* What MediaPipe finds in the frames the tracker is given: an open palm,
\* the same 0.05 and 0.3 to the right.
TrackFrames == {Palm, Shift(Palm, 50), Shift(Palm, 300)}

\* timestamp_ms arguments of _is_velocity_sane called on its own, in any order.
SaneStamps == {33, 66, 99}

\* What one iteration of the loop is given: the landmarks of the frame (None
\* without a hand) and how far pygame.time.get_ticks() has advanced since
\* the iteration before. A frame comes 50 ms after the last one with the
\* hand where it was, or 150 ms after it with the hand moved left.
LoopInputs ==
    {[landmarks |-> <<h>>, dt |-> 50] : h \in {Pinching, Palm, Fist, Peace}}
    \cup {[landmarks |-> <<Shift(h, Moved)>>, dt |-> 150] : h \in {Pinching, Palm, Fist}}
    \cup {[landmarks |-> None, dt |-> 50]}

\* A frame with all 21 points at the centre of the image.
Collapsed == [i \in 1 .. 21 |-> Point(500, 500)]

\* Thumb-to-index distances of the pointing hand of span 0.2: its pinch score
\* is 1 - d / 0.1, so these give 0.95, 0.75, 0.69, 0.49, 0.41, 0.39, 0.31,
\* 0.29, 0.2, 0.1 and 0.05.
PointDists == {5, 25, 31, 51, 59, 61, 69, 71, 80, 90, 95}

\* The frames detect() is fed: pointing hands on either side of every
\* threshold, one of span 0.5 whose score is 0.5 exactly, a fist, a peace
\* sign and an open palm with the thumb far from the index, an open palm
\* with the index tip near the thumb tip, the hands of the test, and a frame
\* whose points coincide.
Hands ==
    {MakeHand(d, {"index"}, FALSE, 200) : d \in PointDists}
    \cup {MakeHand(125, {"index"}, FALSE, 500)}
    \cup {MakeHand(150, {}, FALSE, 200), MakeHand(150, {"index", "middle"}, FALSE, 200),
          MakeHand(150, AllFingers, TRUE, 200), MakeHand(25, AllFingers, TRUE, 200)}
    \cup {create_mock_hand(d) : d \in {150, 15, 1, 30, 50}}
    \cup {Collapsed}

\* ------------------------------------------------------------ history
NoArg == <<>>

\* fresh: the face list has been built for the voxels as they are after the
\* call, and no call has changed the voxels since that build.
Call(op, pos, color, ok, faces, rebuilt) ==
    [op |-> op, pos |-> pos, color |-> color, ok |-> ok, faces |-> faces,
     rebuilt |-> rebuilt, since |-> since, pre |-> Self,
     fresh |-> IF op = "get_visible_faces" THEN rebuilt \/ last.fresh
               ELSE last.fresh /\ DictEq(voxels', voxels)]

FreshRun == [phase |-> "edit", edits |-> 0, undos |-> 0]

EditRun == IF run.phase = "edit" THEN [run EXCEPT !.edits = @ + 1]
           ELSE IF run.phase = "horizon"
                THEN [run EXCEPT !.calls = @ + 1,
                                 !.edits = IF last'.ok THEN @ + 1 ELSE @,
                                 !.snaps = IF last'.ok THEN Append(@, voxels') ELSE @]
           ELSE IF run.phase \in {"fill", "test"} THEN [run EXCEPT !.todo = Tail(@)]
           ELSE [run EXCEPT !.phase = "off"]

UndoRun == IF run.phase = "off" THEN run
           ELSE IF run.phase = "horizon"
                THEN [run EXCEPT !.undos = @ + 1, !.oks = Append(@, last'.ok)]
           ELSE [run EXCEPT !.phase = "undo", !.undos = @ + 1]

\* Before the first detect() call.
NoTick ==
    [n |-> 0, landmarks |-> None, pre |-> NewDetector, raw |-> "NONE",
     ret |-> "NONE", before |-> <<"LOST", "LOST">>, c16 |-> 0, c17 |-> 0,
     ret_before |-> "NONE", releasing |-> FALSE]

\* What a tick contributes to the run of raw labels: its new_gesture, or
\* LOST when it had no hand frame.
Heard(t) == IF t.landmarks = None THEN "LOST" ELSE t.raw

\* The pinch scores of the spec's example sequence, with palm, grab and
\* peace at 0.
Script16 == <<200, 500, 750, 100, 950, 200, 50>>

\* The pinch distances test_state_machine_cycle feeds after detect(None).
Script17 == <<150, 15, 1, 1, 1, 1, 1, 1, 30, 50>>

\* How many frames of Script16 the calls up to this one have fed in a row,
\* the first of them to a detector in state IDLE.
Follow16(landmarks, scores) ==
    IF landmarks = None THEN 0
    ELSE LET is(i) == scores = [pinch |-> Script16[i], palm |-> 0, grab |-> 0, peace |-> 0]
         IN  IF tick.c16 \in 1 .. Len(Script16) - 1 /\ is(tick.c16 + 1) THEN tick.c16 + 1
             ELSE IF detector.state = "IDLE" /\ is(1) THEN 1
             ELSE 0

\* How many frames of Script17 the calls up to this one have fed in a row,
\* the first of them right after a detect(None) call.
Follow17(landmarks) ==
    IF landmarks = None THEN 0
    ELSE LET is(i) == landmarks[1] = create_mock_hand(Script17[i])
         IN  IF tick.c17 \in 1 .. Len(Script17) - 1 /\ is(tick.c17 + 1) THEN tick.c17 + 1
             ELSE IF tick.n > 0 /\ tick.landmarks = None /\ is(1) THEN 1
             ELSE 0

\* Whether, after a detect(landmarks) call with result r, the machine has
\* left PINCHED for RELEASE and no tick since has had pinch < 0.3 or no hand.
Releasing(landmarks, r) ==
    IF landmarks = None THEN FALSE
    ELSE IF detector.state = "PINCHED" /\ r.self.state = "RELEASE" THEN TRUE
    ELSE IF r.self.last_scores.pinch < 300 THEN FALSE
    ELSE tick.releasing

\* The record of a detect(landmarks) call whose result is r.
Ticked(landmarks, r) ==
    [n |-> tick.n + 1, landmarks |-> landmarks, pre |-> detector,
     raw |-> r.raw, ret |-> r.ret,
     before |-> <<tick.before[2], Heard(tick)>>,
     c16 |-> Follow16(landmarks, r.self.last_scores), c17 |-> Follow17(landmarks),
     ret_before |-> tick.ret, releasing |-> Releasing(landmarks, r)]

\* The maximal run of loop iterations with one effective gesture that the
\* last iteration is in: its length, the places, removes and colour cycles
\* _process_gesture has done in it, and whether a lock was active at its
\* first iteration.
NoRun == [gesture |-> "NONE", len |-> 0, placed |-> 0, removed |-> 0, cycled |-> 0,
          locked_start |-> FALSE, removed_at |-> None]

\* Before the first iteration of the loop.
NoLoop == [n |-> 0, now |-> 0, acts |-> NoActs, tip |-> None, prev_tip |-> None,
           gap |-> None, run |-> NoRun, quiet |-> 0, quiet_before |-> 0]

Count(b) == IF b THEN 1 ELSE 0

\* The run after an iteration at time now with effective gesture g that
\* did acts.
RunAfter(g, acts, now) ==
    LET r == IF g = loop.run.gesture /\ loop.run.len > 0 THEN loop.run
             ELSE [NoRun EXCEPT !.gesture = g, !.locked_start = acts.locked]
    IN  [r EXCEPT !.len = @ + 1,
                  !.placed = @ + Count(acts.placed),
                  !.removed = @ + Count(acts.removed),
                  !.cycled = @ + Count(acts.cycled),
                  !.removed_at = IF acts.removed THEN <<now>> ELSE @]

\* The latest end of the time-locks of the actions done so far, after an
\* iteration at time now that did acts: 200 ms after a place, 150 ms after a
\* remove, 300 ms after a colour cycle.
Quiet(acts, now) ==
    Max(loop.quiet, IF acts.placed THEN now + 200
                    ELSE IF acts.removed THEN now + 150
                    ELSE IF acts.cycled THEN now + 300
                    ELSE 0)

\* The time between a remove and the one before it in the same run, when the
\* iteration at time now did the second of them.
Gap(g, acts, now) ==
    IF acts.removed /\ g = loop.run.gesture /\ loop.run.removed_at # None
    THEN <<now - loop.run.removed_at[1]>>
    ELSE None

\* Before the first process() call.
NoFrame == [n |-> 0, found |-> None, ret |-> None, after_loss |-> FALSE,
            pre |-> NewTracker, ts |-> 0, sane |-> None, waited |-> 0]

\* The engine's fields after a call.
Becomes(self) ==
    /\ grid_size' = self.grid_size
    /\ voxels' = self.voxels
    /\ current_color_index' = self.current_color_index
    /\ undo_stack' = self.undo_stack
    /\ visible_faces_cache' = self.cache

\* ------------------------------------------------------------ actions
Init ==
    /\ grid_size \in 1 .. MaxGrid
    /\ voxels = <<>>
    /\ current_color_index = 0
    /\ undo_stack = <<>>
    /\ visible_faces_cache = None
    /\ last = [op |-> "init", pos |-> NoArg, color |-> None, ok |-> FALSE,
               faces |-> <<>>, rebuilt |-> FALSE, since |-> "never",
               pre |-> NewEngine(grid_size), fresh |-> FALSE]
    /\ prev = last
    /\ since = "never"
    /\ run = FreshRun
    /\ detector = NewDetector
    /\ tick = NoTick
    /\ app = NewApp(grid_size)
    /\ loop = NoLoop
    /\ hand_tracker = NewTracker
    /\ seen = NoFrame
    /\ nops = 0

Tick == /\ nops' = nops + 1
        /\ prev' = last
        /\ UNCHANGED << detector, tick, app, loop, hand_tracker, seen >>

Step == nops < MaxOps /\ Tick

\* One call of each method: the fields after it and the record of the call.
Place(p, c) ==
    LET r == place_voxel(Self, p[1], p[2], p[3], c) IN
    /\ Becomes(r.self)
    /\ last' = Call("place", p, c, r.ret, <<>>, FALSE)
    /\ since' = IF r.ret /\ since = "clean" THEN "mutated" ELSE since
    /\ run' = EditRun

Remove(p) ==
    LET r == remove_voxel(Self, p[1], p[2], p[3]) IN
    /\ Becomes(r.self)
    /\ last' = Call("remove", p, None, r.ret, <<>>, FALSE)
    /\ since' = IF r.ret /\ since = "clean" THEN "mutated" ELSE since
    /\ run' = EditRun

UndoCall ==
    LET r == undo(Self) IN
    /\ Becomes(r.self)
    /\ last' = Call("undo", NoArg, None, r.ret, <<>>, FALSE)
    /\ since' = IF r.ret /\ since = "clean" THEN "mutated" ELSE since
    /\ run' = UndoRun

PlaceVoxel ==
    \E p \in Probes(grid_size), c \in ColorArgs : Step /\ Place(p, c)

RemoveVoxel ==
    \E p \in Probes(grid_size) : Step /\ Remove(p)

Undo == Step /\ UndoCall

Clear ==
    /\ Step
    /\ Becomes(clear(Self))
    /\ last' = Call("clear", NoArg, None, FALSE, <<>>, FALSE)
    /\ since' = IF since = "clean" THEN "mutated" ELSE since
    /\ run' = FreshRun

CreateFloor ==
    \E y \in FloorLevels :
        /\ Step
        /\ Becomes(create_floor(Self, y, FloorColor))
        /\ last' = Call("create_floor", <<0, y, 0>>, <<FloorColor>>, FALSE, <<>>, FALSE)
        /\ since' = IF since = "clean" THEN "mutated" ELSE since
        /\ run' = [run EXCEPT !.phase = "off"]

FacesCall ==
    LET r == get_visible_faces(Self) IN
    /\ Becomes(r.self)
    /\ last' = Call("get_visible_faces", NoArg, None, FALSE, r.ret, r.rebuilt)
    /\ since' = "clean"

GetVisibleFaces == Step /\ FacesCall /\ run' = run

NextColor ==
    /\ Step
    /\ Becomes(next_color(Self))
    /\ last' = Call("next_color", NoArg, None, FALSE, <<>>, FALSE)
    /\ UNCHANGED << since, run >>

PrevColor ==
    /\ Step
    /\ Becomes(prev_color(Self))
    /\ last' = Call("prev_color", NoArg, None, FALSE, <<>>, FALSE)
    /\ UNCHANGED << since, run >>

\* The undo scenario: place_voxel / remove_voxel calls on a fresh engine, up
\* to one more than the undo log holds, then as many undo calls.
RunPlace ==
    /\ run.phase = "edit" /\ run.edits <= max_undo
    /\ Tick
    /\ \E p \in Probes(grid_size), c \in ColorArgs : Place(p, c)

RunRemove ==
    /\ run.phase = "edit" /\ run.edits <= max_undo
    /\ Tick
    /\ \E p \in Probes(grid_size) : Remove(p)

RunUndo ==
    /\ run.phase \in {"edit", "undo"} /\ run.undos < run.edits
    /\ Tick
    /\ UndoCall

\* place, remove, undo, clear and the face read: the editing operations.
NextEdit ==
    \/ PlaceVoxel
    \/ RemoveVoxel
    \/ Undo
    \/ Clear
    \/ GetVisibleFaces

Next ==
    \/ PlaceVoxel
    \/ RemoveVoxel
    \/ Undo
    \/ Clear
    \/ CreateFloor
    \/ GetVisibleFaces
    \/ NextColor
    \/ PrevColor

Spec == Init /\ [][Next]_vars

SpecEdit == Init /\ [][NextEdit]_vars

NextUndoRun ==
    \/ RunPlace
    \/ RunRemove
    \/ RunUndo

SpecUndoRun == Init /\ [][NextUndoRun]_vars

\* The undo horizon scenario: on a fresh engine up to max_undo + 2
\* place_voxel / remove_voxel calls, then up to max_undo + 1 undo calls.
\* edits counts the calls that returned True, snaps keeps the voxels after
\* each of them, oks the return values of the undo calls.
InitHorizon ==
    /\ grid_size \in 1 .. MaxGrid
    /\ voxels = <<>>
    /\ current_color_index = 0
    /\ undo_stack = <<>>
    /\ visible_faces_cache = None
    /\ last = [op |-> "init", pos |-> NoArg, color |-> None, ok |-> FALSE,
               faces |-> <<>>, rebuilt |-> FALSE, since |-> "never",
               pre |-> NewEngine(grid_size), fresh |-> FALSE]
    /\ prev = last
    /\ since = "never"
    /\ run = [phase |-> "horizon", calls |-> 0, edits |-> 0, undos |-> 0,
              snaps |-> <<>>, oks |-> <<>>]
    /\ detector = NewDetector
    /\ tick = NoTick
    /\ app = NewApp(grid_size)
    /\ loop = NoLoop
    /\ hand_tracker = NewTracker
    /\ seen = NoFrame
    /\ nops = 0

HorizonPlace ==
    /\ run.phase = "horizon" /\ run.undos = 0 /\ run.calls < max_undo + 2
    /\ Tick
    /\ \E p \in Probes(grid_size), c \in ColorArgs : Place(p, c)

HorizonRemove ==
    /\ run.phase = "horizon" /\ run.undos = 0 /\ run.calls < max_undo + 2
    /\ Tick
    /\ \E p \in Probes(grid_size) : Remove(p)

HorizonUndo ==
    /\ run.phase = "horizon" /\ run.undos <= max_undo
    /\ Tick
    /\ UndoCall

NextHorizon ==
    \/ HorizonPlace
    \/ HorizonRemove
    \/ HorizonUndo

SpecHorizon == InitHorizon /\ [][NextHorizon]_vars

\* The face scenario: a fresh engine of size up to MaxGrid + 1 (the smallest
\* with an interior cell is 3), filled by place_voxel calls, then read.
InitFaces ==
    /\ grid_size \in 1 .. MaxGrid + 1
    /\ voxels = <<>>
    /\ current_color_index = 0
    /\ undo_stack = <<>>
    /\ visible_faces_cache = None
    /\ last = [op |-> "init", pos |-> NoArg, color |-> None, ok |-> FALSE,
               faces |-> <<>>, rebuilt |-> FALSE, since |-> "never",
               pre |-> NewEngine(grid_size), fresh |-> FALSE]
    /\ prev = last
    /\ since = "never"
    /\ run \in {[phase |-> "fill", todo |-> t, reads |-> 0] : t \in Fills(grid_size)}
    /\ detector = NewDetector
    /\ tick = NoTick
    /\ app = NewApp(grid_size)
    /\ loop = NoLoop
    /\ hand_tracker = NewTracker
    /\ seen = NoFrame
    /\ nops = 0

FillCell ==
    /\ run.phase = "fill" /\ run.todo # <<>>
    /\ Tick
    /\ Place(Head(run.todo), FillColor(Head(run.todo)))

ReadFaces ==
    /\ run.phase = "fill" /\ run.todo = <<>> /\ run.reads < MaxReads
    /\ Tick
    /\ FacesCall
    /\ run' = [run EXCEPT !.reads = @ + 1]

NextFaces ==
    \/ FillCell
    \/ ReadFaces

SpecFaces == InitFaces /\ [][NextFaces]_vars

\* test_culling: an engine of grid size 16, the places of the test and a
\* get_visible_faces() after the first, after the second and after the last.
InitCulling ==
    /\ grid_size = TestGrid
    /\ voxels = <<>>
    /\ current_color_index = 0
    /\ undo_stack = <<>>
    /\ visible_faces_cache = None
    /\ last = [op |-> "init", pos |-> NoArg, color |-> None, ok |-> FALSE,
               faces |-> <<>>, rebuilt |-> FALSE, since |-> "never",
               pre |-> NewEngine(grid_size), fresh |-> FALSE]
    /\ prev = last
    /\ since = "never"
    /\ run \in {[phase |-> "test", todo |-> TestPlaces(a), reads |-> 0, a |-> a] :
                    a \in TestStarts}
    /\ detector = NewDetector
    /\ tick = NoTick
    /\ app = NewApp(grid_size)
    /\ loop = NoLoop
    /\ hand_tracker = NewTracker
    /\ seen = NoFrame
    /\ nops = 0

\* The test reads the faces next.
ReadDue ==
    LET placed == Len(TestPlaces(run.a)) - Len(run.todo)
    IN  \/ placed = 1 /\ run.reads = 0
        \/ placed = 2 /\ run.reads = 1
        \/ run.todo = <<>> /\ run.reads = 2

TestPlace ==
    /\ run.phase = "test" /\ run.todo # <<>> /\ ~ReadDue
    /\ Tick
    /\ Place(Head(run.todo), None)

TestRead ==
    /\ run.phase = "test" /\ ReadDue
    /\ Tick
    /\ FacesCall
    /\ run' = [run EXCEPT !.reads = @ + 1]

NextCulling ==
    \/ TestPlace
    \/ TestRead

SpecCulling == InitCulling /\ [][NextCulling]_vars

\* One detect() call: the detector after it and the record of the call.
Detect(landmarks) ==
    LET r == detect(detector, landmarks) IN
    /\ tick.n < MaxTicks
    /\ detector' = r.self
    /\ tick' = Ticked(landmarks, r)
    /\ UNCHANGED << grid_size, voxels, current_color_index, undo_stack,
                    visible_faces_cache, last, prev, since, run, app, loop,
                    hand_tracker, seen, nops >>

DetectNone == Detect(None)

DetectHand == \E h \in Hands : Detect(<<h>>)

\* The detector alone, beside an engine that is left as constructed.
InitDetect == grid_size = 1 /\ Init

NextDetect ==
    \/ DetectNone
    \/ DetectHand

SpecDetect == InitDetect /\ [][NextDetect]_vars

\* AirForge.__init__: a fresh engine with the demo platform placed.
InitLoop ==
    /\ grid_size = MaxGrid
    /\ LET engine == create_demo_structure(NewEngine(grid_size))
       IN  /\ voxels = engine.voxels
           /\ current_color_index = engine.current_color_index
           /\ undo_stack = engine.undo_stack
           /\ visible_faces_cache = engine.cache
    /\ last = [op |-> "init", pos |-> NoArg, color |-> None, ok |-> FALSE,
               faces |-> <<>>, rebuilt |-> FALSE, since |-> "never",
               pre |-> NewEngine(grid_size), fresh |-> FALSE]
    /\ prev = last
    /\ since = "never"
    /\ run = FreshRun
    /\ detector = NewDetector
    /\ tick = NoTick
    /\ app = NewApp(grid_size)
    /\ loop = NoLoop
    /\ hand_tracker = NewTracker
    /\ seen = NoFrame
    /\ nops = 0

\* One iteration of run(): hand_tracker.process() delivers landmarks (None
\* or a hand), detect, then _process_gesture with the clock dt later than at
\* the iteration before.
LoopTick(landmarks, dt) ==
    LET d == detect(detector, landmarks)
        now == loop.now + dt
        p == process_gesture(app, Self, d.ret, landmarks, now)
    IN  /\ loop.n < MaxLoopTicks
        /\ detector' = d.self
        /\ app' = p.app
        /\ Becomes(p.engine)
        /\ loop' = [n |-> loop.n + 1, now |-> now, acts |-> p.acts,
                    tip |-> IF landmarks = None THEN None
                            ELSE <<At(landmarks[1], INDEX_TIP)>>,
                    prev_tip |-> loop.tip,
                    gap |-> Gap(d.ret, p.acts, now),
                    run |-> RunAfter(d.ret, p.acts, now),
                    quiet |-> Quiet(p.acts, now), quiet_before |-> loop.quiet]
        /\ UNCHANGED << tick, last, prev, since, run, hand_tracker, seen, nops >>

LoopNoHand == \E i \in LoopInputs : i.landmarks = None /\ LoopTick(i.landmarks, i.dt)

LoopHand == \E i \in LoopInputs : i.landmarks # None /\ LoopTick(i.landmarks, i.dt)

NextLoop ==
    \/ LoopNoHand
    \/ LoopHand

SpecLoop == InitLoop /\ [][NextLoop]_vars

\* The sanity filter rejected the frame of the last call.
Rejected == seen.sane = <<FALSE>>

\* How many calls in a row the filter has rejected before this one.
Waited == IF Rejected THEN seen.waited + 1 ELSE 0

\* One process() call: MediaPipe finds hand_landmarks in the frame.
ProcessCall(hand_landmarks) ==
    LET r == process(hand_tracker, hand_landmarks) IN
    /\ hand_tracker' = r.self
    /\ seen' = [n |-> seen.n + 1, found |-> hand_landmarks, ret |-> r.ret,
                after_loss |-> seen.n > 0 /\ seen.found = None,
                pre |-> hand_tracker, ts |-> r.self.frame_timestamp_ms,
                sane |-> IF hand_landmarks = None THEN None
                         ELSE <<is_velocity_sane(hand_tracker, hand_landmarks[1],
                                                 r.self.frame_timestamp_ms).ret>>,
                waited |-> Waited]
    /\ UNCHANGED << grid_size, voxels, current_color_index, undo_stack, visible_faces_cache,
                    last, prev, since, run, detector, tick, app, loop, nops >>

Process(hand_landmarks) == seen.n < MaxFrames /\ ProcessCall(hand_landmarks)

ProcessNoHand == Process(None)

ProcessHand == \E h \in TrackFrames : Process(<<h>>)

NextTrack ==
    \/ ProcessNoHand
    \/ ProcessHand

SpecTrack == InitLoop /\ [][NextTrack]_vars

\* The frames of the repeat scenario: those of TrackFrames and the palm 0.45
\* to the right.
FarFrames == TrackFrames \cup {Shift(Palm, 450)}

\* The repeat scenario: process() calls on any frames until the sanity
\* filter rejects one; from then on MediaPipe finds that same hand in every
\* frame until the filter accepts. run()'s while loop calls process() on
\* every iteration (main.py:97), hence the fairness of RepeatFrame.
FreeNoHand == ~Rejected /\ Process(None)

FreeFrame == ~Rejected /\ \E h \in FarFrames : Process(<<h>>)

RepeatFrame == Rejected /\ seen.waited < MaxWait /\ ProcessCall(seen.found)

NextRepeat ==
    \/ FreeNoHand
    \/ FreeFrame
    \/ RepeatFrame

SpecRepeat == InitLoop /\ [][NextRepeat]_vars /\ WF_vars(RepeatFrame)

\* One _is_velocity_sane call on its own, with any of the timestamps.
SaneCall ==
    \E h \in TrackFrames, ts \in SaneStamps :
        LET r == is_velocity_sane(hand_tracker, h, ts) IN
        /\ seen.n < MaxFrames
        /\ hand_tracker' = r.self
        /\ seen' = [n |-> seen.n + 1, found |-> <<h>>, ret |-> None, after_loss |-> FALSE,
                    pre |-> hand_tracker, ts |-> ts, sane |-> <<r.ret>>,
                    waited |-> Waited]
        /\ UNCHANGED << grid_size, voxels, current_color_index, undo_stack,
                        visible_faces_cache, last, prev, since, run, detector, tick,
                        app, loop, nops >>

SpecSane == InitLoop /\ [][SaneCall]_vars

\* _handle_events for one KEYDOWN event: K_z, K_c, K_r, K_x.
KeyZ ==
    /\ Step
    /\ LET r == undo(Self) IN
        /\ Becomes(r.self)
        /\ last' = Call("K_z", NoArg, None, r.ret, <<>>, FALSE)
    /\ UNCHANGED << since, run >>

KeyC ==
    /\ Step
    /\ Becomes(next_color(Self))
    /\ last' = Call("K_c", NoArg, None, FALSE, <<>>, FALSE)
    /\ UNCHANGED << since, run >>

KeyR ==
    /\ nops < MaxOps
    /\ nops' = nops + 1
    /\ prev' = last
    /\ app' = [app EXCEPT !.camera = NewCamera]
    /\ last' = Call("K_r", NoArg, None, FALSE, <<>>, FALSE)
    /\ UNCHANGED << grid_size, voxels, current_color_index, undo_stack, visible_faces_cache,
                    detector, tick, loop, hand_tracker, seen, since, run >>

KeyX ==
    /\ Step
    /\ Becomes(create_demo_structure(clear(Self)))
    /\ last' = Call("K_x", NoArg, None, FALSE, <<>>, FALSE)
    /\ UNCHANGED << since, run >>

\* Key presses after start-up, with no hand in front of the camera.
NextKeys ==
    \/ KeyZ
    \/ KeyC
    \/ KeyR
    \/ KeyX

SpecKeys == InitLoop /\ [][NextKeys]_vars

\* ------------------------------------------------------------- claims
\* A position lies in a grid of size g (stated apart from is_valid_position).
InGrid(pos, g) == \A i \in 1 .. 3 : pos[i] \in 0 .. (g - 1)

\* The engine is as it was before the last call.
Untouched ==
    /\ voxels = last.pre.voxels
    /\ undo_stack = last.pre.undo_stack
    /\ visible_faces_cache = last.pre.cache

IsEdit(call) == call.op \in {"place", "remove"}

\* C1: place_voxel with any axis outside [0, grid_size) returns False and
\* leaves the voxel map, the undo stack and the memoized face list as they were.
C1_OutOfBoundsPlaceRejected ==
    (last.op = "place" /\ ~InGrid(last.pos, grid_size))
        => (~last.ok /\ Untouched)

\* A place at x = grid_size was refused on a store that holds a voxel, an
\* undo record and a memoized face list.
C1_Witness ==
    /\ last.op = "place" /\ last.pos[1] = grid_size /\ ~last.ok
    /\ voxels # <<>> /\ undo_stack # <<>> /\ visible_faces_cache # None

\* C2: remove_voxel on an empty cell and undo on an empty undo stack return
\* False and leave the voxel map, the undo stack and the face memo unchanged.
C2_FailedRemoveAndUndoChangeNothing ==
    /\ (last.op = "remove" /\ last.pos \notin Keys(last.pre.voxels))
          => (~last.ok /\ Untouched)
    /\ (last.op = "undo" /\ last.pre.undo_stack = <<>>)
          => (~last.ok /\ Untouched)

\* A failed remove followed by a failed undo, on a store that holds voxels
\* and a memoized face list.
C2_Witness ==
    /\ prev.op = "remove" /\ ~prev.ok
    /\ last.op = "undo" /\ ~last.ok
    /\ voxels # <<>> /\ visible_faces_cache # None

\* C3: after any sequence of place, remove, undo and clear calls, every key
\* of the voxel map and every position in the undo stack is inside the grid.
C3_KeysInBounds ==
    /\ \A k \in Keys(voxels) : InGrid(k, grid_size)
    /\ \A i \in DOMAIN undo_stack : InGrid(undo_stack[i].pos, grid_size)

\* Out-of-bounds calls were made on a store with a voxel and a full undo log.
C3_Witness ==
    /\ last.op = "place" /\ ~InGrid(last.pos, grid_size)
    /\ prev.op = "remove" /\ ~InGrid(prev.pos, grid_size)
    /\ voxels # <<>> /\ Len(undo_stack) = max_undo

\* What get_visible_faces() returns when called on engine state e.
FacesOf(e) == get_visible_faces(e).ret

\* The last two calls were place_voxel(c), which succeeded, then remove_voxel(c).
PlaceThenRemove ==
    /\ prev.op = "place" /\ prev.ok
    /\ last.op = "remove" /\ last.pos = prev.pos

\* C4 as claimed: place_voxel(c) then remove_voxel(c) restores the voxel map
\* and the face list of before the place, also when c was already occupied.
C4_RoundTripAnyCell ==
    PlaceThenRemove
        => (DictEq(voxels, prev.pre.voxels) /\ FacesOf(Self) = FacesOf(prev.pre))

\* C4 amended: when the cell at c is empty before the place, place_voxel(c)
\* then remove_voxel(c) leaves the voxel map (its order included) and the
\* face list as before the place; when the cell was occupied, the pair
\* leaves it empty and every other cell as it was.
C4_RoundTripEmptyCell ==
    PlaceThenRemove
        => IF prev.pos \notin Keys(prev.pre.voxels)
           THEN /\ last.ok
                /\ voxels = prev.pre.voxels
                /\ FacesOf(Self) = FacesOf(prev.pre)
           ELSE /\ last.ok
                /\ voxels = DictDel(prev.pre.voxels, prev.pos)

\* A place on an empty cell next to an occupied one, then its removal.
C4_Witness ==
    /\ PlaceThenRemove
    /\ prev.pos \notin Keys(prev.pre.voxels)
    /\ prev.pre.voxels # <<>>
    /\ FacesOf(prev.pre) # <<>>

\* C5: from an empty store with an empty undo stack, N place_voxel /
\* remove_voxel calls (successful or not, N <= max_undo) followed by N undo
\* calls leave the voxel map empty.
C5_UndoAllRestoresEmpty ==
    (run.phase = "undo" /\ run.undos = run.edits /\ run.edits <= max_undo)
        => voxels = <<>>

\* The same without the bound on N, which the undo horizon refutes.
UndoAllAnyLength ==
    (run.phase = "undo" /\ run.undos = run.edits) => voxels = <<>>

\* Two successful edits, the second over the first one's voxel, undone by
\* two undo calls.
C5_Witness ==
    /\ run.phase = "undo" /\ run.edits = 2 /\ run.undos = 2
    /\ last.op = "undo" /\ last.ok /\ prev.op = "undo" /\ prev.ok
    /\ Len(prev.pre.undo_stack) = 2
    /\ prev.pre.undo_stack[2].voxel # None

\* The last two calls were a successful place_voxel / remove_voxel, then undo.
EditThenUndo == IsEdit(prev) /\ prev.ok /\ last.op = "undo"

\* C6: an undo right after a successful place_voxel or remove_voxel returns
\* True and the voxel map is again the one of before the edit (as a dict:
\* the same cells with the same colours).
C6_UndoReversesLastEdit ==
    EditThenUndo => (last.ok /\ DictEq(voxels, prev.pre.voxels))

\* A place over a voxel of another colour, beside a second voxel, was undone.
C6_Witness ==
    /\ EditThenUndo /\ prev.op = "place"
    /\ prev.pos \in Keys(prev.pre.voxels)
    /\ DictGet(prev.pre.voxels, prev.pos) # DictGet(last.pre.voxels, prev.pos)
    /\ Len(voxels) >= 2

\* C7: the undo stack never holds more than max_undo records; a successful
\* edit on a full stack drops exactly the oldest record, keeps the others in
\* order and puts the new record on top.
C7_UndoLogBounded ==
    /\ Len(undo_stack) <= max_undo
    /\ (IsEdit(last) /\ last.ok /\ Len(last.pre.undo_stack) = max_undo)
          => undo_stack =
                Tail(last.pre.undo_stack) \o
                    << [action |-> last.op, pos |-> last.pos,
                        voxel |-> DictGet(last.pre.voxels, last.pos)] >>

\* A successful edit was recorded on a full undo stack.
C7_Witness ==
    /\ IsEdit(last) /\ last.ok
    /\ Len(last.pre.undo_stack) = max_undo
    /\ last.pre.undo_stack[1] # last.pre.undo_stack[max_undo]

\* C8: after clear() the voxel map and the undo stack are empty and the face
\* memo is invalid; an undo that follows returns False and restores nothing.
C8_ClearIsFinal ==
    /\ last.op = "clear"
          => (voxels = <<>> /\ undo_stack = <<>> /\ visible_faces_cache = None)
    /\ (prev.op = "clear" /\ last.op = "undo")
          => (~last.ok /\ voxels = <<>> /\ undo_stack = <<>>)

\* clear() on a store with voxels, undo records and a face memo, then undo.
C8_Witness ==
    /\ prev.op = "clear" /\ last.op = "undo"
    /\ prev.pre.voxels # <<>> /\ prev.pre.undo_stack # <<>>
    /\ prev.pre.cache # None

\* The faces of a voxel map, stated from the map alone: one record per
\* occupied cell and direction whose neighbouring cell is not occupied.
FaceSet(d) ==
    {[pos |-> e.pos, face |-> directions[i].face, color |-> e.voxel[1]] :
        <<e, i>> \in {<<e, i>> \in Items(d) \X DOMAIN directions :
            <<e.pos[1] + directions[i].d[1], e.pos[2] + directions[i].d[2],
              e.pos[3] + directions[i].d[3]>> \notin Keys(d)}}

Range(f) == {f[i] : i \in DOMAIN f}

\* C9: whatever calls came before, a memoized face list is the list of the
\* current voxel map, and get_visible_faces() returns that list.
C9_CacheCoherent ==
    /\ visible_faces_cache # None
          => /\ visible_faces_cache[1] = BuildFaces(Self, 1)
             /\ Range(visible_faces_cache[1]) = FaceSet(voxels)
    /\ last.op = "get_visible_faces"
          => /\ last.faces = BuildFaces(Self, 1)
             /\ Range(last.faces) = FaceSet(voxels)

\* A face list was memoized, a mutation changed the faces, and the next read
\* returned another list.
C9_Witness ==
    /\ last.op = "get_visible_faces" /\ last.rebuilt
    /\ prev.op \in {"place", "remove", "undo", "clear", "create_floor"}
    /\ prev.pre.cache # None
    /\ last.faces # prev.pre.cache[1]
    /\ last.faces # <<>>

\* C10: a get_visible_faces() call with no successful place, remove, undo or
\* clear since the previous one returns the memoized list and does not run
\* the rebuild; a failed mutation in between changes nothing of that.
C10_MemoReused ==
    (last.op = "get_visible_faces" /\ last.since = "clean")
        => /\ ~last.rebuilt
           /\ last.pre.cache # None
           /\ last.faces = last.pre.cache[1]
           /\ visible_faces_cache = last.pre.cache

\* Two reads with only a failed mutation between them.
C10_Witness ==
    /\ last.op = "get_visible_faces" /\ last.since = "clean"
    /\ prev.op \in {"place", "remove", "undo"} /\ ~prev.ok
    /\ last.faces # <<>>

\* C11 as stated: a rebuild never happens for voxels for which the face list
\* was already built and which no call has changed since.
C11_RebuildOncePerContent ==
    (last.op = "get_visible_faces" /\ last.rebuilt) => ~prev.fresh

\* C11: the face list is rebuilt at most once between two successful mutating
\* calls: a get_visible_faces() call rebuilds only if none was made before or
\* a place, remove, undo, clear or create_floor call succeeded since the last
\* one, whether or not that call changed the voxels.
C11_RebuildOncePerMutation ==
    (last.op = "get_visible_faces" /\ last.rebuilt)
        => /\ last.since \in {"never", "mutated"}
           /\ last.pre.cache = None

\* The list was built, a place_voxel call put the same colour into the same
\* cell, and the next read built the list again for the same voxels.
C11_Witness ==
    /\ last.op = "get_visible_faces" /\ last.rebuilt
    /\ prev.op = "place" /\ prev.ok /\ prev.fresh
    /\ last.faces # <<>>
    /\ last.faces = prev.pre.cache[1]

\* The cell next to pos across the named face (x right, y up, z to the front).
Toward(pos, face) ==
    CASE face = "right"  -> <<pos[1] + 1, pos[2], pos[3]>>
      [] face = "left"   -> <<pos[1] - 1, pos[2], pos[3]>>
      [] face = "top"    -> <<pos[1], pos[2] + 1, pos[3]>>
      [] face = "bottom" -> <<pos[1], pos[2] - 1, pos[3]>>
      [] face = "front"  -> <<pos[1], pos[2], pos[3] + 1>>
      [] face = "back"   -> <<pos[1], pos[2], pos[3] - 1>>

FaceNames == {"right", "left", "top", "bottom", "front", "back"}

Occupied == Keys(voxels)

\* The last call was get_visible_faces() and the list it returned has n records.
ReadGave(n) == last.op = "get_visible_faces" /\ Len(last.faces) = n

\* C12: the list get_visible_faces() returns holds a record (cell, direction,
\* colour of the cell) exactly for each occupied cell and each of the six
\* directions whose neighbouring cell is unoccupied, a neighbour outside the
\* grid counting as unoccupied; neither face between two touching occupied
\* cells is in it, and no (cell, direction) pair is in it twice.
C12_ExactlyOpenFaces ==
    last.op = "get_visible_faces" =>
        /\ \A i \in DOMAIN last.faces :
              /\ last.faces[i].pos \in Occupied
              /\ last.faces[i].face \in FaceNames
              /\ Toward(last.faces[i].pos, last.faces[i].face) \notin Occupied
              /\ <<last.faces[i].color>> = DictGet(voxels, last.faces[i].pos)
        /\ \A p \in Occupied, f \in FaceNames :
              Toward(p, f) \notin Occupied
                  => \E i \in DOMAIN last.faces :
                        last.faces[i].pos = p /\ last.faces[i].face = f
        /\ \A i, j \in DOMAIN last.faces :
              (last.faces[i].pos = last.faces[j].pos
                  /\ last.faces[i].face = last.faces[j].face) => i = j

\* Two touching cells of different colour in a corner of a grid of size 3,
\* read: ten records, among them faces towards the outside of the grid.
C12_Witness ==
    /\ ReadGave(10) /\ last.rebuilt /\ grid_size = 3
    /\ Occupied = {<<0, 0, 0>>, <<0, 1, 0>>}
    /\ DictGet(voxels, <<0, 0, 0>>) # DictGet(voxels, <<0, 1, 0>>)
    /\ \E i \in DOMAIN last.faces :
          last.faces[i].pos = <<0, 1, 0>> /\ last.faces[i].face = "top"

\* C13: with exactly one occupied cell, wherever in the grid it is,
\* get_visible_faces() returns exactly 6 faces.
C13_SingleCellSixFaces ==
    (last.op = "get_visible_faces" /\ Cardinality(Occupied) = 1)
        => Len(last.faces) = 6

\* The only cell of a grid of size 1, all of whose neighbours are outside.
C13_Witness ==
    /\ ReadGave(6) /\ last.rebuilt /\ grid_size = 1
    /\ Occupied = {<<0, 0, 0>>}

Abs(n) == IF n < 0 THEN -n ELSE n

\* a and b differ by 1 on exactly one axis and are equal on the others.
AxisAdjacent(a, b) ==
    Abs(a[1] - b[1]) + Abs(a[2] - b[2]) + Abs(a[3] - b[3]) = 1

\* C14: with exactly two occupied cells that are axis-adjacent,
\* get_visible_faces() returns exactly 10 faces.
C14_AdjacentPairTenFaces ==
    (/\ last.op = "get_visible_faces"
     /\ \E a, b \in Occupied : Occupied = {a, b} /\ AxisAdjacent(a, b))
        => Len(last.faces) = 10

\* The interior cell of a grid of size 3 and the cell in front of it.
C14_Witness ==
    /\ ReadGave(10) /\ last.rebuilt /\ grid_size = 3
    /\ Occupied = {<<1, 1, 1>>, <<1, 1, 2>>}

\* C15: when the occupied cells are exactly a filled k x k x k cube,
\* 1 <= k <= grid_size, get_visible_faces() returns exactly 6 * k * k faces.
C15_CubeFaces ==
    last.op = "get_visible_faces" =>
        \A k \in 1 .. grid_size, o \in Cells(grid_size) :
            ((\A i \in 1 .. 3 : o[i] + k <= grid_size) /\ Occupied = Cube(o, k))
                => Len(last.faces) = 6 * k * k

\* A 2 x 2 x 2 cube away from the origin in a grid of size 3.
C15_Witness ==
    /\ ReadGave(24) /\ last.rebuilt /\ grid_size = 3
    /\ Occupied = Cube(<<1, 1, 1>>, 2)

\* The last tick had a hand frame.
HandTick == tick.n > 0 /\ tick.landmarks # None

\* The states the spec's example lists for the seven frames of Script16.
Stated16 ==
    <<"HAND_PRESENT", "PRE_PINCH", "PINCHED", "RELEASE", "RELEASE", "RELEASE",
      "HAND_PRESENT">>

\* The same, with HAND_PRESENT after the sixth frame (score 0.2 < 0.3).
Amended16 ==
    <<"HAND_PRESENT", "PRE_PINCH", "PINCHED", "RELEASE", "RELEASE", "HAND_PRESENT",
      "HAND_PRESENT">>

\* C16 as stated: from IDLE, frames with pinch scores 0.2, 0.5, 0.75, 0.1,
\* 0.95, 0.2, 0.05 leave the state at HAND_PRESENT, PRE_PINCH, PINCHED,
\* RELEASE, RELEASE, RELEASE, HAND_PRESENT.
C16_SequenceAsStated ==
    \A k \in 1 .. Len(Script16) : tick.c16 = k => detector.state = Stated16[k]

\* C16: from IDLE, frames with pinch scores 0.2, 0.5, 0.75, 0.1, 0.95, 0.2,
\* 0.05 (palm, grab and peace 0) leave the state at HAND_PRESENT, PRE_PINCH,
\* PINCHED, RELEASE, RELEASE, HAND_PRESENT, HAND_PRESENT: the sixth frame's
\* score 0.2 is below 0.3 and ends the release.
C16_SequenceAmended ==
    \A k \in 1 .. Len(Script16) : tick.c16 = k => detector.state = Amended16[k]

\* All seven frames were fed; the re-pinch of the fifth was ignored and the
\* sixth ended the release.
C16_Witness ==
    /\ tick.c16 = Len(Script16)
    /\ detector.state = "HAND_PRESENT"
    /\ tick.pre.state = "HAND_PRESENT"
    /\ detector.last_scores.pinch = 50

\* The states test_state_machine_cycle asserts after the frames of Script17.
Asserted17 ==
    <<"HAND_PRESENT", "PRE_PINCH", "PINCHED", "PINCHED", "PINCHED", "PINCHED",
      "PINCHED", "PINCHED", "RELEASE", "HAND_PRESENT">>

\* C17: after a no-hand tick, the test's hands with thumb-to-index distances
\* 0.15, 0.015, 0.001 (six ticks), 0.03 and 0.05 leave the state at
\* HAND_PRESENT, PRE_PINCH, PINCHED throughout the hold, RELEASE and
\* HAND_PRESENT.
C17_TestCycle ==
    \A k \in 1 .. Len(Script17) : tick.c17 = k => detector.state = Asserted17[k]

\* C18: from every state, a detect() tick with no hand frame sets the state
\* to IDLE, the hold count to 0 and the last label to NONE, and returns NONE.
C18_NoHandResets ==
    (tick.n > 0 /\ tick.landmarks = None)
        => /\ detector.state = "IDLE"
           /\ detector.gesture_hold_frames = 0
           /\ detector.last_gesture = "NONE"
           /\ tick.ret = "NONE"

\* The hand is lost while a pinch is held.
C18_Witness ==
    /\ tick.n > 0 /\ tick.landmarks = None
    /\ tick.pre.state = "PINCHED"
    /\ tick.pre.gesture_hold_frames >= 2
    /\ tick.pre.last_gesture = "PINCH"
    /\ detector.state = "IDLE"

\* C19: from HAND_PRESENT, PRE_PINCH, PINCHED and RELEASE one hand tick takes
\* the transition of the table and no second one: HAND_PRESENT to PRE_PINCH
\* iff pinch > 0.4; PRE_PINCH to PINCHED iff pinch > 0.7, to HAND_PRESENT iff
\* pinch < 0.3, else stays; PINCHED to RELEASE iff pinch < 0.5, else stays;
\* RELEASE to HAND_PRESENT iff pinch < 0.3, else stays.
C19_TransitionTable ==
    HandTick =>
        LET from == tick.pre.state
            to == detector.state
            pinch == detector.last_scores.pinch
        IN  /\ from = "HAND_PRESENT" =>
                  /\ to \in {"HAND_PRESENT", "PRE_PINCH"}
                  /\ to = "PRE_PINCH" <=> pinch > 400
            /\ from = "PRE_PINCH" =>
                  /\ to \in {"PRE_PINCH", "PINCHED", "HAND_PRESENT"}
                  /\ to = "PINCHED" <=> pinch > 700
                  /\ to = "HAND_PRESENT" <=> pinch < 300
            /\ from = "PINCHED" =>
                  /\ to \in {"PINCHED", "RELEASE"}
                  /\ to = "RELEASE" <=> pinch < 500
            /\ from = "RELEASE" =>
                  /\ to \in {"RELEASE", "HAND_PRESENT"}
                  /\ to = "HAND_PRESENT" <=> pinch < 300

\* A frame whose score passes both the 0.4 and the 0.7 threshold, fed in
\* HAND_PRESENT: the tick stops at PRE_PINCH.
C19_Witness ==
    /\ HandTick
    /\ tick.pre.state = "HAND_PRESENT"
    /\ detector.last_scores.pinch > 700
    /\ detector.state = "PRE_PINCH"

\* C20: from IDLE, a tick with a hand present ends in HAND_PRESENT and has
\* no raw label, whatever the scores of the frame.
C20_IdleTickOnlyWakes ==
    (HandTick /\ tick.pre.state = "IDLE")
        => /\ detector.state = "HAND_PRESENT"
           /\ tick.raw = "NONE"

\* The labels that go through the debounce.
Debounced == {"POINT", "PALM", "GRAB", "PEACE"}

\* C21: on a hand tick detect() returns a label G of POINT, PALM, GRAB, PEACE
\* if and only if new_gesture was G on this tick and on the two ticks before
\* it, none of them a no-hand tick; a label that has not been held for three
\* ticks in a row is not returned, a label held longer is returned from its
\* third tick onward.
C21_Debounce ==
    HandTick =>
        /\ \A G \in Debounced :
              tick.ret = G <=> (tick.raw = G /\ tick.before = <<G, G>>)
        /\ tick.ret \in Debounced \cup {"NONE", "PINCH"}

\* A fist surfaces on its third tick, after two ticks on which it did not.
C21_Witness ==
    /\ HandTick
    /\ tick.ret = "GRAB" /\ tick.before = <<"GRAB", "GRAB">>
    /\ detector.gesture_hold_frames = 3
    /\ tick.pre.gesture_hold_frames = 2

\* C22: detect() returns PINCH exactly on the ticks evaluated in state
\* PINCHED with pinch >= 0.5, whatever the hold count of the label, and on no
\* other tick; the state after a tick that returns PINCH is PINCHED.
C22_PinchTiedToPinched ==
    tick.n > 0 =>
        /\ tick.ret = "PINCH"
              <=> /\ HandTick
                  /\ tick.pre.state = "PINCHED"
                  /\ detector.last_scores.pinch >= 500
        /\ tick.ret = "PINCH" => detector.state = "PINCHED"

\* PINCH returned with a hold count of 1, the score being 0.5 exactly.
C22_Witness ==
    /\ HandTick
    /\ tick.ret = "PINCH"
    /\ detector.gesture_hold_frames = 1
    /\ detector.last_scores.pinch = 500

\* The last tick took the machine from PRE_PINCH into PINCHED.
EntersPinched ==
    HandTick /\ tick.pre.state = "PRE_PINCH" /\ detector.state = "PINCHED"

\* C23 as stated: on the tick that takes the machine from PRE_PINCH into
\* PINCHED, detect() returns PINCH.
C23_PinchOnEntry == EntersPinched => tick.ret = "PINCH"

\* C23: the tick that takes the machine from PRE_PINCH into PINCHED has the
\* label POINT and returns POINT or NONE, never PINCH; PINCH is returned on
\* the next tick if its pinch score is at least 0.5, with a hold count of 1.
C23_PinchAfterEntry ==
    /\ EntersPinched
          => /\ tick.raw = "POINT"
             /\ tick.ret = IF tick.before = <<"POINT", "POINT">> THEN "POINT" ELSE "NONE"
    /\ (/\ HandTick
         /\ tick.pre.state = "PINCHED" /\ tick.pre.last_gesture = "POINT"
         /\ detector.last_scores.pinch >= 500)
          => /\ tick.before[2] = "POINT"
             /\ tick.ret = "PINCH"
             /\ detector.gesture_hold_frames = 1

\* The tick after the one that entered PINCHED returns the first PINCH.
C23_Witness ==
    /\ HandTick
    /\ tick.pre.state = "PINCHED" /\ tick.pre.last_gesture = "POINT"
    /\ tick.before[2] = "POINT"
    /\ tick.ret = "PINCH"

\* C29: for a frame whose 21 points coincide the scorer yields pinch = palm =
\* grab = peace = 0, and detect() returns NONE and leaves the state out of
\* PRE_PINCH and PINCHED.
C29_DegenerateFrameNeutral ==
    (HandTick /\ tick.landmarks = <<Collapsed>>)
        => /\ detector.last_scores = [pinch |-> 0, palm |-> 0, grab |-> 0, peace |-> 0]
           /\ tick.ret = "NONE"
           /\ detector.state \notin {"PRE_PINCH", "PINCHED"}

\* The last iteration was one of a run of PINCH iterations.
InPinchRun == loop.n > 0 /\ loop.run.gesture = "PINCH"

\* C24: within one maximal run of consecutive iterations whose effective
\* gesture is PINCH, _process_gesture does at most one successful
\* place_voxel, however long the run and wherever the cursor goes.
C24_PlaceOncePerPinch == InPinchRun => loop.run.placed <= 1

\* A pinch held beyond the 200 ms lock: an iteration of the run that is not
\* locked, has the cursor on another cell than the iteration before, and
\* places nothing because the run has placed already.
C24_Witness ==
    /\ InPinchRun
    /\ loop.run.placed = 1
    /\ ~loop.acts.locked /\ ~loop.acts.placed
    /\ loop.tip # loop.prev_tip
    /\ app.pinch_fired

\* The last iteration was one of a run of PALM iterations.
InPalmRun == loop.n > 0 /\ loop.run.gesture = "PALM"

\* C25 as stated: within one maximal run of consecutive iterations whose
\* effective gesture is PALM, at most one voxel is removed.
C25_RemoveOncePerPalm == InPalmRun => loop.run.removed <= 1

\* C25: within one maximal PALM run, two successive removes are more than
\* 150 ms apart (the run removes again once the lock of the remove before
\* has run out and the cursor is on an occupied cell).
C25_RemoveThrottled == loop.gap # None => InPalmRun /\ loop.gap[1] > 150

\* A second remove in one PALM run.
C25_Witness == InPalmRun /\ loop.gap # None /\ loop.run.removed = 2 /\ loop.acts.removed

\* The last iteration was one of a run of PEACE iterations at whose first
\* iteration no action lock was active.
InFreePeaceRun == loop.n > 0 /\ loop.run.gesture = "PEACE" /\ ~loop.run.locked_start

\* C26: a maximal run of PEACE iterations that starts with no action lock
\* active has, from its first iteration on, cycled the colour exactly once:
\* never twice, and never zero times because _peace_active is still set
\* from an earlier PEACE run.
C26_PeaceCyclesOnce == InFreePeaceRun => loop.run.cycled = 1

\* The last iteration was one of a run of GRAB iterations, not the first.
LaterInGrabRun == loop.n > 0 /\ loop.run.gesture = "GRAB" /\ loop.run.len >= 2

\* camera.orbit's arguments for the index tip going from one frame to the next.
TipDelta(from, to) == <<-((to.x - from.x) * 200), (to.y - from.y) * 200>>

\* C27: on every iteration of a GRAB run after its first, camera.orbit is
\* called with the delta of the index tip from the frame before; on every
\* iteration whose effective gesture is not GRAB it is not called.
C27_OrbitWhileGrab ==
    /\ LaterInGrabRun => loop.acts.orbit = TipDelta(loop.prev_tip[1], loop.tip[1])
    /\ loop.n > 0 /\ loop.run.gesture # "GRAB" => loop.acts.orbit = None

\* C28: the X key has the effect of clear(): right after it the voxel map
\* and the undo stack are empty, and a Z key pressed next undoes nothing.
C28_ClearAllEmpties ==
    /\ last.op = "K_x" => voxels = <<>> /\ undo_stack = <<>>
    /\ last.op = "K_z" /\ prev.op = "K_x" => ~last.ok /\ Self = last.pre

\* C30: the smoother's history is empty after every process() call that
\* found no hand, and the first frame delivered after such a call is
\* returned raw and is the new history.
C30_HistoryResetOnLoss ==
    /\ seen.n > 0 /\ seen.found = None => hand_tracker.smoother.prev_landmarks = None
    /\ seen.after_loss /\ seen.ret # None =>
           /\ seen.ret = seen.found
           /\ hand_tracker.smoother.prev_landmarks = seen.found

\* The last call ran _is_velocity_sane: on what was stored, with what
\* elapsed time, and whether the wrist was faster than MAX_SPEED.
SaneRan == seen.n > 0 /\ seen.sane # None

Seeded == seen.pre.last_sane_landmarks # None

Elapsed == seen.ts - seen.pre.last_sane_timestamp

TooFast ==
    Dist2(At(seen.found[1], WRIST), At(seen.pre.last_sane_landmarks[1], WRIST))
        > (MAX_SPEED * Elapsed) * (MAX_SPEED * Elapsed)

StoredIsFound ==
    /\ hand_tracker.last_sane_landmarks = seen.found
    /\ hand_tracker.last_sane_timestamp = seen.ts

StoredIsKept ==
    /\ hand_tracker.last_sane_landmarks = seen.pre.last_sane_landmarks
    /\ hand_tracker.last_sane_timestamp = seen.pre.last_sane_timestamp

\* C31: the first _is_velocity_sane call accepts and stores frame and
\* timestamp; later a frame with zero or negative elapsed time is accepted,
\* a frame whose wrist speed since the stored frame exceeds MAX_SPEED is
\* rejected and leaves what is stored, and a frame accepted with positive
\* elapsed time replaces both.
C31_SanityFilter ==
    SaneRan =>
        /\ ~Seeded => seen.sane[1] /\ StoredIsFound
        /\ Seeded /\ Elapsed <= 0 => seen.sane[1]
        /\ Seeded /\ Elapsed > 0 /\ TooFast => ~seen.sane[1] /\ StoredIsKept
        /\ Seeded /\ Elapsed > 0 /\ ~TooFast => seen.sane[1] /\ StoredIsFound

\* A frame rejected for its speed, against a stored frame other than it.
C31_Witness ==
    /\ SaneRan /\ Seeded /\ Elapsed > 0
    /\ ~seen.sane[1]
    /\ hand_tracker.last_sane_landmarks # seen.found

\* A frame accepted with no time elapsed.
C31_WitnessNoTime == SaneRan /\ Seeded /\ Elapsed <= 0 /\ seen.sane[1]

\* The last detect() call took the machine from HAND_PRESENT to PRE_PINCH.
EntersPrePinch ==
    /\ tick.n > 0 /\ tick.landmarks # None
    /\ tick.pre.state = "HAND_PRESENT"
    /\ detector.state = "PRE_PINCH"

\* C32: on the tick that takes the machine from HAND_PRESENT to PRE_PINCH
\* the raw label is POINT, so that a POINT held for 3 ticks or more is
\* returned on that tick too and its hold count goes on counting.
C32_PointOnPrePinchEntry ==
    EntersPrePinch =>
        /\ tick.raw = "POINT"
        /\ tick.pre.last_gesture = "POINT" /\ tick.pre.gesture_hold_frames >= min_hold_frames =>
               /\ tick.ret = "POINT"
               /\ detector.gesture_hold_frames = tick.pre.gesture_hold_frames + 1

\* C33: once the machine has left PINCHED for RELEASE it is not in PINCHED
\* and detect() does not return PINCH until a later tick has had
\* pinch < 0.3 or no hand; a tick with pinch > 0.8 in RELEASE leaves the
\* state RELEASE; PINCHED is entered from PRE_PINCH only.
C33_FullReleaseFirst ==
    /\ tick.releasing => detector.state # "PINCHED" /\ tick.ret # "PINCH"
    /\ tick.n > 0 /\ tick.landmarks # None /\ tick.pre.state = "RELEASE"
           /\ detector.last_scores.pinch > 800 => detector.state = "RELEASE"
    /\ tick.n > 0 /\ detector.state = "PINCHED" => tick.pre.state \in {"PRE_PINCH", "PINCHED"}

\* A pinch above 0.8 on a tick in RELEASE, not yet fully released.
C33_Witness ==
    /\ tick.releasing
    /\ tick.pre.state = "RELEASE"
    /\ detector.last_scores.pinch > 800
    /\ detector.state = "RELEASE"

\* C40: detect() never returns two different gestures other than NONE on
\* consecutive ticks, except POINT followed by PINCH.
C40_NoDirectSwitch ==
    tick.n > 1 /\ tick.ret # "NONE" /\ tick.ret_before # "NONE" /\ tick.ret # tick.ret_before
        => tick.ret_before = "POINT" /\ tick.ret = "PINCH"

\* POINT returned on one tick and PINCH on the next.
C40_Witness == tick.n > 1 /\ tick.ret_before = "POINT" /\ tick.ret = "PINCH"

\* C34: every frame with a hand goes through the smoother first and the
\* sanity filter second: the smoother's history is updated on every
\* process() call that found a hand, also when the filter rejects the frame.
C34_SmootherBeforeFilter ==
    seen.n > 0 /\ seen.found # None =>
        hand_tracker.smoother = update(seen.pre.smoother, seen.found[1]).self

\* The test's n-th get_visible_faces() has just returned.
TestRead_n(n) == run.phase = "test" /\ last.op = "get_visible_faces" /\ run.reads = n

Acted ==
    loop.acts.placed \/ loop.acts.removed \/ loop.acts.cycled \/ loop.acts.orbit # None

\* C36: no gesture action is done at a time before t + 200 ms after a place
\* at t, before t + 150 ms after a remove at t, or before t + 300 ms after
\* a colour cycle at t, and action_lock_until is never below the end of a
\* lock set before.
C36_TimeLock ==
    /\ Acted => loop.now >= loop.quiet_before
    /\ loop.n > 0 /\ app.action_lock_until # None => app.action_lock_until[1] >= loop.quiet

\* An iteration with a gesture that acts, held back by a running lock.
C36_Witness ==
    /\ loop.n > 0 /\ loop.now < loop.quiet_before
    /\ loop.run.gesture \in {"PINCH", "PALM", "PEACE", "GRAB"}
    /\ loop.acts.locked /\ ~Acted

\* C37: camera.orbit is called only on an iteration of a GRAB run after its
\* first, with the delta of the index tip from the frame before, and
\* last_grab_pos is never anything but the index tip of the last iteration,
\* which then was a GRAB one.
C37_NoStaleGrab ==
    /\ loop.acts.orbit # None =>
           /\ LaterInGrabRun /\ loop.prev_tip # None
           /\ loop.acts.orbit = TipDelta(loop.prev_tip[1], loop.tip[1])
    /\ app.last_grab_pos # None =>
           loop.run.gesture = "GRAB" /\ app.last_grab_pos = loop.tip

\* camera.orbit called with the hand moved since the frame before.
C37_Witness ==
    /\ loop.acts.orbit # None /\ loop.acts.orbit # <<0, 0>>
    /\ LaterInGrabRun

\* More than max_undo place_voxel / remove_voxel calls returned True, and
\* only undo calls followed.
PastHorizon == run.phase = "horizon" /\ run.edits > max_undo

\* C38: after n > max_undo successful edits the first max_undo undo calls
\* return True and the next returns False, and from the max_undo-th undo on
\* the voxel map is the one the store had after the first n - max_undo
\* edits.
C38_UndoHorizon ==
    PastHorizon =>
        /\ \A i \in 1 .. Len(run.oks) : run.oks[i] = (i <= max_undo)
        /\ run.undos >= max_undo =>
               DictEq(voxels, run.snaps[run.edits - max_undo])

\* max_undo + 1 undo calls after more successful edits than the log holds,
\* the first of them not the last one standing: the store is not empty.
C38_Witness ==
    /\ PastHorizon /\ run.undos = max_undo + 1
    /\ last.op = "undo" /\ ~last.ok
    /\ voxels # <<>>
    /\ run.snaps[run.edits] # run.snaps[run.edits - max_undo]

\* C39: when the sanity filter has rejected a frame and MediaPipe finds the
\* same hand in every later frame, a later process() call accepts it.
C39_AcceptsEventually ==
    \A h \in FarFrames :
        (Rejected /\ seen.found = <<h>>) ~> (seen.sane = <<TRUE>> /\ seen.found = <<h>>)

\* A frame accepted on its third call, after two rejections.
C39_Witness ==
    /\ seen.sane = <<TRUE>> /\ seen.waited = 2
    /\ seen.ts - seen.pre.last_sane_timestamp = 3 * FrameMs

====
